---- MODULE Spec2Model ----
(***************************************************************************)
(* Sandbox lifecycle manager, code-execution executor and job orchestrator *)
(* of the GUI-OS agent benchmark, modelled as one single-threaded Python   *)
(* interpreter: a call stack of frames, one action per statement group,    *)
(* and an exception table (Handler) transcribed from the try/except/       *)
(* finally structure of the source.                                        *)
(*                                                                         *)
(* Three drivers share the same actions:                                   *)
(*   Spec     - Orchestrator.run_benchmark runs the jobs of the index.     *)
(*   SpecLib  - a library client calls the public methods of               *)
(*              SandboxVMManager in any order.                             *)
(*   SpecExec - a client constructs SandboxExecutor and calls cleanup.     *)
(* The parts that stand alone have a specification each: SpecPool          *)
(* (generate_port_pool), SpecConfig (descriptor validation), SpecRun       *)
(* (run_code_raise_errors), SpecSsh (SSHClient.exec_command), SpecXfer     *)
(* (file and directory transfer), SpecWait and SpecWaitLive (the wait for  *)
(* the remote shell behind start) and SpecSftp (the cached session and     *)
(* its SFTP sub-channel).                                                  *)
(***************************************************************************)
EXTENDS Integers, Sequences, FiniteSets, TLC

\* ------------------------------------------------------------------ bounds
NumTasks == 2          \* jobs listed in the task index
MaxProbes == 2         \* ssh readiness probes that fit in the 300 s window
MaxKernels == 2        \* execution contexts the gateway is let to hold

\* ------------------------------------------------------- program constants
Retries == 5           \* _initialize_kernel_connection(retries=5)

\* ----------------------------------------------------------------- domains
Status == {"absent", "created", "running", "paused", "exited"}
ExcKinds == {"Exception", "TimeoutError"}
Flags == {"wait", "restart", "delete", "preserve", "fnf"}

VARIABLES
    stack,          \* call stack; the last frame is the one executing
    alarm,          \* SIGALRM of benchmark.utils.Timeout: "off" | "armed" | "fired"
    cur,            \* job being run (index into the task list), 0 before the first
    fsops,          \* history: host file operations of the manager since its construction, as [op, path]
    docker,         \* control plane: status of the container named after the job (cfg.container_name)
    storage,        \* cfg.host_container_dir holds the job's private data.img
    container,      \* VMManager.container is not None
    cstatus,        \* VMManager.container.status (cached by the last reload)
    shouldCleanup,  \* SandboxVMManager._should_cleanup
    preserve,       \* SandboxVMManager._preserve_on_exit
    sshOpen,        \* SSHClient._client is not None (session held)
    hasVm,          \* a constructed manager exists (SandboxExecutor: hasattr(self, "vm"))
    probes,         \* probes issued by the running _wait_for_ssh_ready
    kernels,        \* execution contexts alive on the sandbox's kernel gateway
    kernelId,       \* SandboxExecutor.kernel_id is not None
    ws,             \* SandboxExecutor.ws is not None
    exited,         \* SandboxExecutor._exited
    attempt,        \* loop counter of the running retry loop in _initialize_kernel_connection
    agent,          \* _task_worker: the local `agent` is not None
    tin,            \* _task_worker: task_input.output (state, score, error_log_path)
    summary,        \* summary.json in the job's result directory, as last written
    saves,          \* history: save_result_summary calls made for the job
    errlogs,        \* error-log files in the job's result directory, by error type
    started,        \* history: jobs handed to _run_single_task_with_timeout, in order
    failed,         \* history: jobs that ended in one of the runner's except clauses
    firedAt,        \* history: where the alarm fired: "none" | "body" | "other"
    bodyExc,        \* history: the job body raised on its own (setup step or agent run)
    owned,          \* history: a container was adopted or created for the job and no
                    \*          VMManager.cleanup has been invoked since
    constructed,    \* history: what has been constructed for the job
    foundAtInit,    \* history: the constructor's name lookup found a container
    adoptedRunning, \* history: ... and that container was running or paused
    createdSince,   \* history: a create request was issued since construction
    cleanedSince,   \* history: cleanup was entered since construction
    cleanedTrue,    \* history: cleanup(delete_storage=True) entered since connect_or_start began
    bringUp,        \* history: "no" | "running" | "failed" (exception left connect_or_start)
    lastCleanup,    \* history: the running (or last) VMManager.cleanup: was it a repeat,
                    \*          did it issue a stop request, did it meet NotFound
    requests,       \* history: what the running start() saw of the container, the requests it sent
    sshAtCleanupEnd, \* history: session still held when the last VMManager.cleanup ended
    \* generate_port_pool (benchmark/utils.py)
    start,          \* argument: first port of the range
    max_conc,       \* argument: number of concurrent slots asked for
    keys,           \* argument: list of port keys
    port,           \* local: base of the block being built
    pool,           \* local: blocks built so far, each a map key -> port
    poolFile,       \* content of out_file ("none" before it is written)
    poolPc,         \* position in generate_port_pool
    \* descriptor validation (configs.py, VMManager._validate_config)
    cfg,            \* the descriptor handed to the manager
    validation,     \* "pending" | "ok" | "VMCreationError" | "AttributeError"
    \* SandboxExecutor.run_code_raise_errors (agent/executor.py)
    rpc,            \* position of the caller / the running call
    runs,           \* calls made so far
    fragment,       \* the code handed to the call: what it prints, whether it has a
                    \* final-answer expression, whether it raises in the kernel
    return_final_answer, \* argument
    msg_id,         \* id of the request the running call sent
    outputs,        \* local: stream texts kept
    result,         \* local: unpickled result, "None" until set
    waiting_for_idle, \* local
    inbox,          \* messages the kernel has sent that ws.recv() has not yet returned
    kernelq,        \* execute requests the kernel has not started yet
    kernel,         \* the kernel's run of the request it is executing
    outcome,        \* how the last call ended: a returned pair or a raised error
    seen,           \* history of the running call: messages discarded, own idle and
                    \* own error message consumed
    \* SSHClient.exec_command (sandbox/ssh.py)
    sshPc,          \* position in exec_command
    call,           \* arguments of the call, cfg.password, and the session it talks to
    channel,        \* the paramiko channel: unread stdout / stderr, stdin, exit status, closed
    remote,         \* the remote command: its phase and what it has written to each stream
    loc,            \* locals of exec_command, named as in the source
    elapsed,        \* time.time() - start_time has reached cfg.command_timeout
    ret,            \* how the call ended: the returned value or the raised error
    \* file transfer of SSHClient (sandbox/ssh.py)
    xferPc,         \* "off" | "up" | "putdir" | "down" | "getdir" | "end"
    scene,          \* how the remote location and the local destination started out
    lfs,            \* local file system: nodes [path, kind, data]
    rfs,            \* remote file system, as sftp sees it
    xcalls,         \* the calls made, with their arguments and, once ended, how they ended
    walk,           \* frames of _upload_recursive / _download_recursive: the directory
                    \* pair and the listed items not yet visited
    \* VMManager._wait_for_ssh_ready and the end of start (sandbox/virtualmachine.py)
    wpc,            \* position in start / _wait_for_ssh_ready
    wait_for_ssh,   \* argument of start
    now,            \* time.time() - (deadline - timeout), in sleep intervals
    probe,          \* what the last exec_command("echo ready") gave: a dict or an error
    waited,         \* history: entries into _wait_for_ssh_ready and probes made
    wout,           \* how _wait_for_ssh_ready and start ended
    \* the session and the SFTP sub-channel of SSHClient (sandbox/ssh.py)
    client,         \* self._client: the session held (its number), 0 for None
    sftp,           \* self._sftp: the session the sub-channel was opened on, 0 for None
    sessions,       \* sessions established so far
    active,         \* sessions whose transport is active
    handed          \* history: the last call on the client and what it held when it returned

poolVars == <<start, max_conc, keys, port, pool, poolFile, poolPc>>
cfgVars == <<cfg, validation>>
runVars == <<rpc, runs, fragment, return_final_answer, msg_id, outputs, result,
             waiting_for_idle, inbox, kernelq, kernel, outcome, seen>>
sshVars == <<sshPc, call, channel, remote, loc, elapsed, ret>>
xferVars == <<xferPc, scene, lfs, rfs, xcalls, walk>>
waitVars == <<wpc, wait_for_ssh, now, probe, waited, wout>>
sftpVars == <<client, sftp, sessions, active, handed>>
shellVars == <<sshVars, xferVars, waitVars, sftpVars>>
pureVars == <<poolVars, cfgVars, runVars, shellVars>>
vmVars == <<container, cstatus, shouldCleanup, preserve, sshOpen, hasVm, probes>>
worldVars == <<docker, storage>>
histVars == <<foundAtInit, adoptedRunning, createdSince, cleanedSince, cleanedTrue, lastCleanup, requests, bringUp, sshAtCleanupEnd>>
jobVars == <<kernelId, ws, exited, attempt, agent, tin, summary, saves, errlogs, started, failed,
             firedAt, bodyExc>>
vars == <<stack, alarm, cur, fsops, pureVars, docker, storage, container, cstatus, shouldCleanup,
          preserve, sshOpen, hasVm, probes, foundAtInit, adoptedRunning, createdSince,
          cleanedSince, cleanedTrue, lastCleanup, requests, bringUp, sshAtCleanupEnd, kernels, kernelId, ws,
          exited, attempt, agent, tin, summary, saves, errlogs, started, failed, firedAt,
          bodyExc, owned, constructed>>

\* TaskOutput as far as the summary goes; score -1 is "not evaluated".
Output(st, sc, path) == [state |-> st, score |-> sc, error_log_path |-> path]
NoOutput == Output("absent", 0, "None")

\* What a VMManager.cleanup has done so far: nothing.
NoCleanup == [repeat |-> FALSE, req |-> FALSE, gone |-> FALSE]
NoRequests == [seen |-> "none", restart |-> FALSE, sent |-> <<>>]

\* One host file operation: op is "mkdir", "read", "write", "bind" or "delete".
FsOp(o, p) == [op |-> o, path |-> p]

\* ------------------------------------------------------------ interpreter
Frame(l, a) == [pc |-> l, exc |-> "none", arg |-> a]
Top == stack[Len(stack)]
At(l) == stack # <<>> /\ Top.pc = l
Goto(l) == [stack EXCEPT ![Len(stack)].pc = l]
GotoClear(l) == [stack EXCEPT ![Len(stack)] = [pc |-> l, exc |-> "none", arg |-> Top.arg]]
Call(l, a) == Append(stack, Frame(l, a))
CallFrom(here, l, a) == Append(Goto(here), Frame(l, a))

\* Labels of the library client while one of its calls is running.
UserCalls == {"user.init", "user.start", "user.cleanup", "user.connect_or_start", "user.exit",
              "user.xcleanup"}

\* Continuation of a caller once the call made at label l has returned.
After(l) ==
    CASE l \in UserCalls -> "user.idle"
      [] l = "user.xinit" -> "user.bind"
      [] l = "start.entry" -> "start.wait"
      [] l = "start.wait" -> "start.connect"
      [] l = "connect_or_start.entry" -> "connect_or_start.return"
      [] l = "enter.try" -> "enter.ok"
      [] l = "enter.except" -> "enter.raise"
      [] l = "exit.entry" -> "exit.return"
      [] l = "start_agent_vm.start" -> "start_agent_vm.mount"
      [] l = "start_agent_vm.client" -> "start_agent_vm.return"
      [] l = "sinit.super" -> "sinit.flags"
      [] l = "reconnect.start" -> "reconnect.client"
      [] l = "reconnect.client" -> "reconnect.return"
      [] l = "xinit.vm" -> "xinit.connect"
      [] l = "xinit.connect" -> "xinit.kernel"
      [] l = "xinit.kernel" -> "xinit.install"
      [] l = "xinit.except" -> "xinit.raise"
      [] l = "xcleanup.vmexit" -> "xcleanup.exited"
      [] l = "acleanup.call" -> "acleanup.return"
      [] l = "bench.loop" -> "bench.loop"
      [] l = "single.with" -> "single.exit"
      [] l = "worker.agent" -> "worker.assign"
      [] l = "worker.process" -> "worker.finally"
      [] l = "worker.finally" -> "worker.finally_end"
      [] OTHER -> "undefined"

\* Exception table: the label control moves to when an exception of kind e
\* is raised by (or propagates into) a frame positioned at label l.
NoCatch == [to |-> "none", keep |-> FALSE]
Catch(l, keepExc) == [to |-> l, keep |-> keepExc]
\* SandboxExecutor.cleanup, executor.py lines 217-227: one try around all
\* three teardown steps; its except logs and falls through to line 228.
ExecutorCleanupHandler == Catch("xcleanup.exited", FALSE)

\* Variant: the runner catches TimeoutError only.
SingleHandlerTimeoutOnly(e) ==
    IF e = "TimeoutError" THEN Catch("single.timeout", FALSE) ELSE NoCatch

\* _run_single_task_with_timeout, orchestrator.py lines 89 and 102
SingleHandler(e) ==
    IF e = "TimeoutError" THEN Catch("single.timeout", FALSE) ELSE Catch("single.error", FALSE)

\* _process_task, orchestrator.py line 206: except Exception (TimeoutError is one)
ProcessHandler(e) == Catch("process.except", FALSE)

Handler(l, e) ==
    CASE l \in UserCalls \cup {"user.xinit"} -> Catch("user.idle", FALSE)
      [] l = "wait.probe" -> Catch("wait.sleep", FALSE)
      [] l \in {"cleanup.stop", "cleanup.remove"} -> Catch("cleanup.finally", TRUE)
      [] l = "enter.try" -> Catch("enter.except", TRUE)
      [] l = "health.probe" -> Catch("health.sleep", FALSE)
      [] l = "health.sleep" -> Catch("health.convert", FALSE)
      [] l \in {"xinit.vm", "xinit.connect", "xinit.kernel", "xinit.install"} ->
             Catch("xinit.except", TRUE)
      [] l = "kernel.list" -> Catch("kernel.create", FALSE)
      [] l = "kernel.post" -> Catch("kernel.create_sleep", FALSE)
      [] l = "kernel.connect" -> Catch("kernel.ws_sleep", FALSE)
      [] l \in {"xcleanup.delete", "xcleanup.wsclose", "xcleanup.vmexit"} ->
             ExecutorCleanupHandler
      [] l = "acleanup.call" -> Catch("acleanup.return", FALSE)
      [] l \in {"single.with", "single.exit"} -> SingleHandler(e)
      [] l \in {"worker.config", "worker.agent", "worker.assign", "worker.process"} ->
             Catch("worker.except", FALSE)
      [] l = "worker.except" -> Catch("worker.finally", TRUE)
      [] l \in {"process.setup", "process.run", "process.eval", "process.eval_except"} ->
             ProcessHandler(e)
      [] l = "process.eval_call" -> Catch("process.eval_except", FALSE)
      [] l = "process.except" -> Catch("process.finally", TRUE)
      [] OTHER -> NoCatch

RECURSIVE Unwind(_, _)
Unwind(s, e) ==
    IF s = <<>> THEN <<>>
    ELSE LET f == s[Len(s)]
             h == Handler(f.pc, e)
         IN IF h.to # "none"
            THEN [s EXCEPT ![Len(s)] = [pc |-> h.to,
                                        exc |-> IF h.keep THEN e ELSE "none",
                                        arg |-> f.arg]]
            ELSE Unwind(SubSeq(s, 1, Len(s) - 1), e)

\* Labels of the frames an exception raised at the top of s leaves behind.
RECURSIVE Popped(_, _)
Popped(s, e) ==
    IF s = <<>> THEN {}
    ELSE LET f == s[Len(s)]
         IN IF Handler(f.pc, e).to # "none" THEN {}
            ELSE {f.pc} \cup Popped(SubSeq(s, 1, Len(s) - 1), e)

CleanupLabels == {"cleanup.stop", "cleanup.remove", "cleanup.finally", "cleanup.rmtree", "cleanup.sshclose"}
ConnectLabels == {"connect_or_start.entry", "connect_or_start.return"}

\* Raise e in the executing frame: unwind, and keep the history variables.
Raise(e) ==
    /\ stack' = Unwind(stack, e)
    /\ sshAtCleanupEnd' = IF Popped(stack, e) \cap CleanupLabels # {} THEN sshOpen ELSE sshAtCleanupEnd
    /\ bringUp' = IF Popped(stack, e) \cap ConnectLabels # {} THEN "failed" ELSE bringUp

NoRaise == UNCHANGED <<sshAtCleanupEnd, bringUp>>

\* Return from the executing frame to its caller.
ReturnStack ==
    LET s == SubSeq(stack, 1, Len(stack) - 1)
    IN [s EXCEPT ![Len(s)].pc = After(s[Len(s)].pc)]

\* Labels whose statement is a plain `return`.
ReturnLabels == {"init.return", "sinit.return", "start.return", "wait.return",
                 "create.return", "cleanup.return", "connect_or_start.return",
                 "enter.return", "exit.return", "start_agent_vm.return",
                 "reconnect.return", "health.return", "xinit.return", "kernel.return",
                 "xcleanup.return", "acleanup.return", "single.return", "worker.return",
                 "process.return"}

Return ==
    /\ stack # <<>> /\ Top.pc \in ReturnLabels
    /\ stack' = ReturnStack
    /\ sshAtCleanupEnd' = IF Top.pc = "cleanup.return" THEN sshOpen ELSE sshAtCleanupEnd
    /\ bringUp' = IF Top.pc = "connect_or_start.return" THEN "no" ELSE bringUp
    /\ hasVm' = IF Top.pc = "sinit.return" THEN TRUE ELSE hasVm
    /\ UNCHANGED <<jobVars, kernels, owned, constructed, alarm, cur, fsops, pureVars, worldVars, container, cstatus, shouldCleanup, preserve,
                   sshOpen, probes, foundAtInit, adoptedRunning, createdSince, cleanedSince, cleanedTrue, lastCleanup, requests>>

\* ------------------------------------------------- VMManager (virtualmachine.py)
\* __init__, lines 41-49: a fresh, unconnected SSHClient, no handle, validation.
VMInitValidate ==
    /\ At("init.validate")
    /\ sshOpen' = FALSE
    /\ container' = FALSE
    /\ cstatus' = "absent"
    /\ foundAtInit' = FALSE /\ createdSince' = FALSE /\ cleanedSince' = FALSE
    /\ adoptedRunning' = FALSE
    /\ requests' = NoRequests
    /\ fsops' = {}
    /\ owned' = FALSE
    /\ constructed' = constructed \cup {"manager", "ssh"}
    /\ \/ stack' = Goto("init.attach") /\ NoRaise
       \/ Raise("Exception")                       \* VMCreationError
    /\ UNCHANGED <<jobVars, kernels, alarm, cur, pureVars, worldVars, shouldCleanup, preserve, hasVm, probes, cleanedTrue, lastCleanup>>

\* Variant: the handle is cached only for a container that is up.
AttachCachesOnlyUp(st) == st \in {"running", "paused"}

\* _attach_to_existing_container_if_running: the handle is cached whatever the status.
AttachCaches(st) == TRUE

VMInitAttach ==
    /\ At("init.attach")
    /\ \/ /\ docker # "absent" /\ AttachCaches(docker)
          /\ container' = TRUE /\ cstatus' = docker /\ foundAtInit' = TRUE
          /\ adoptedRunning' = (docker \in {"running", "paused"})
          /\ owned' = TRUE
          /\ stack' = Goto("init.return") /\ NoRaise
       \/ /\ docker # "absent" /\ ~AttachCaches(docker)
          /\ foundAtInit' = TRUE
          /\ stack' = Goto("init.return") /\ NoRaise
          /\ UNCHANGED <<container, cstatus, owned, adoptedRunning>>
       \/ /\ docker = "absent"                \* except NotFound
          /\ stack' = Goto("init.return") /\ NoRaise
          /\ UNCHANGED <<container, cstatus, foundAtInit, adoptedRunning, owned>>
       \/ /\ Raise("Exception")                    \* any other control-plane error
          /\ UNCHANGED <<container, cstatus, foundAtInit, adoptedRunning, owned>>
    /\ UNCHANGED <<jobVars, kernels, constructed, alarm, cur, fsops, pureVars, worldVars, shouldCleanup, preserve, sshOpen, hasVm, probes,
                   createdSince, cleanedSince, cleanedTrue, lastCleanup, requests>>

\* start(), lines 67-93: which container request the call issues.
StartCreates == ~container

\* What start() sees of the container: no cached handle, or the status reload() fetched.
Observed == IF container THEN docker ELSE "none"

\* The request start() sends to an existing container in the observed status.
StartRequestsAlways(status, restart_if_running) ==
    IF status \in {"running", "paused"} THEN <<"restart">> ELSE <<"start">>

StartRequests(status, restart_if_running) ==
    IF status \in {"running", "paused"}
    THEN IF restart_if_running THEN <<"restart">> ELSE <<>>
    ELSE <<"start">>

StartEntry ==
    /\ At("start.entry")
    /\ IF StartCreates
       THEN /\ stack' = Call("create.ensure_image", {})
            /\ NoRaise
            /\ requests' = [seen |-> Observed, restart |-> "restart" \in Top.arg, sent |-> <<>>]
            /\ UNCHANGED <<docker, cstatus, kernels>>
       ELSE \/ /\ docker = "absent"           \* reload(): NotFound propagates
               /\ Raise("Exception")
               /\ requests' = [seen |-> Observed, restart |-> "restart" \in Top.arg, sent |-> <<>>]
               /\ UNCHANGED <<docker, cstatus, kernels>>
            \/ /\ docker # "absent"
               /\ cstatus' = docker
               /\ requests' = [seen |-> Observed, restart |-> "restart" \in Top.arg,
                            sent |-> StartRequests(docker, "restart" \in Top.arg)]
               /\ IF requests'.sent # <<>>
                  THEN \/ /\ docker' = "running"
                          /\ kernels' = 0
                          /\ stack' = Goto("start.wait") /\ NoRaise
                       \/ Raise("Exception") /\ UNCHANGED <<docker, kernels>>
                  ELSE stack' = Goto("start.wait") /\ NoRaise /\ UNCHANGED <<docker, kernels>>
    /\ UNCHANGED <<jobVars, owned, constructed, alarm, cur, fsops, pureVars, storage, container, shouldCleanup,
                   preserve, sshOpen, hasVm, probes, foundAtInit, adoptedRunning, createdSince, cleanedSince,
                   cleanedTrue, lastCleanup>>

\* start(), lines 96-97
StartWait ==
    /\ At("start.wait")
    /\ IF "wait" \in Top.arg
       THEN stack' = Call("wait.probe", {}) /\ probes' = 0
       ELSE stack' = Goto("start.return") /\ UNCHANGED probes
    /\ UNCHANGED <<jobVars, kernels, owned, constructed, alarm, cur, fsops, pureVars, worldVars, container, cstatus, shouldCleanup, preserve,
                   sshOpen, hasVm, histVars>>

\* start(), line 98; SSHClient.connect, ssh.py lines 94-106
StartConnect ==
    /\ At("start.connect")
    /\ \/ sshOpen' = TRUE /\ stack' = Goto("start.return") /\ NoRaise
       \/ Raise("Exception") /\ UNCHANGED sshOpen  \* SSHError
    /\ UNCHANGED <<jobVars, kernels, owned, constructed, alarm, cur, fsops, pureVars, worldVars, container, cstatus, shouldCleanup, preserve,
                   hasVm, probes, foundAtInit, adoptedRunning, createdSince, cleanedSince, cleanedTrue, lastCleanup, requests>>

\* _wait_for_ssh_ready, lines 155-165: loop head and the probe inside the try.
WaitProbe ==
    /\ At("wait.probe")
    /\ IF probes >= MaxProbes
       THEN Raise("TimeoutError") /\ probes' = 0 /\ UNCHANGED sshOpen
       ELSE /\ NoRaise
            /\ \/ /\ docker = "running"       \* stdout.strip() == "ready"
                  /\ sshOpen' = TRUE
                  /\ probes' = 0
                  /\ stack' = Goto("wait.return")
               \/ /\ sshOpen' \in {sshOpen} \cup (IF docker = "running" THEN {TRUE} ELSE {})
                  /\ probes' = probes + 1
                  /\ stack' = Goto("wait.sleep")   \* probe raised, or other output
    /\ UNCHANGED <<jobVars, kernels, owned, constructed, alarm, cur, fsops, pureVars, worldVars, container, cstatus, shouldCleanup, preserve,
                   hasVm, foundAtInit, adoptedRunning, createdSince, cleanedSince, cleanedTrue, lastCleanup, requests>>

\* _wait_for_ssh_ready, line 164
WaitSleep ==
    /\ At("wait.sleep")
    /\ stack' = Goto("wait.probe")
    /\ UNCHANGED <<jobVars, kernels, owned, constructed, alarm, cur, fsops, pureVars, worldVars, vmVars, histVars>>

\* create_container, line 186
CreateEnsureImage ==
    /\ At("create.ensure_image")
    /\ \/ stack' = Goto("create.copy") /\ NoRaise
       \/ Raise("Exception")
    /\ UNCHANGED <<jobVars, kernels, owned, constructed, alarm, cur, fsops, pureVars, worldVars, vmVars, foundAtInit, adoptedRunning, createdSince, cleanedSince, cleanedTrue, lastCleanup, requests>>

\* copy_vm_base_data_file, lines 178-182
CreateCopy ==
    /\ At("create.copy")
    /\ storage' = TRUE
    /\ fsops' = fsops \cup {FsOp("mkdir", "host_container_dir"), FsOp("read", "base_data"),
                             FsOp("write", "host_container_data")}
    /\ stack' = Goto("create.run")
    /\ UNCHANGED <<jobVars, kernels, owned, constructed, alarm, cur, pureVars, docker, vmVars, histVars>>

\* Variant: the container boots from the shared base image itself.
BootImageShared == "base_data"

\* create_container, line 190: Mount(target="/boot.img", source=host_container_data)
BootImage == "host_container_data"

\* create_container, lines 211-223: the create request
CreateRun ==
    /\ At("create.run")
    /\ createdSince' = TRUE
    /\ requests' = [requests EXCEPT !.sent = Append(@, "create")]
    /\ fsops' = fsops \cup {FsOp("bind", BootImage), FsOp("bind", "host_container_shared_dir")}
    /\ \/ /\ docker = "absent"
          /\ docker' = "running"
          /\ kernels' = 0
          /\ container' = TRUE /\ cstatus' = "created"
          /\ owned' = TRUE
          /\ constructed' = constructed \cup {"container"}
          /\ stack' = Goto("create.return") /\ NoRaise
       \/ /\ Raise("Exception")                    \* name conflict or API error
          /\ UNCHANGED <<docker, container, cstatus, kernels, owned, constructed>>
    /\ UNCHANGED <<jobVars, alarm, cur, pureVars, storage, shouldCleanup, preserve, sshOpen, hasVm,
                   probes, foundAtInit, adoptedRunning, cleanedSince, cleanedTrue, lastCleanup>>

\* cleanup, lines 230-232: entry and container.stop()
CleanupStop ==
    /\ At("cleanup.stop")
    /\ cleanedSince' = TRUE
    /\ cleanedTrue' = (cleanedTrue \/ "delete" \in Top.arg)
    /\ owned' = FALSE
    /\ IF ~container
       THEN /\ stack' = Goto("cleanup.rmtree") /\ NoRaise /\ UNCHANGED <<docker, kernels>>
            /\ lastCleanup' = [repeat |-> cleanedSince /\ ~owned, req |-> FALSE, gone |-> FALSE]
       ELSE /\ \E nf \in BOOLEAN :
                 lastCleanup' = [repeat |-> cleanedSince /\ ~owned, req |-> TRUE, gone |-> nf]
            /\ \/ /\ docker = "absent"           \* except NotFound
                  /\ lastCleanup'.gone
                  /\ stack' = Goto("cleanup.finally") /\ NoRaise /\ UNCHANGED <<docker, kernels>>
               \/ /\ docker # "absent"
                  /\ ~lastCleanup'.gone
                  /\ docker' = (IF docker \in {"running", "paused"} THEN "exited" ELSE docker)
                  /\ kernels' = 0
                  /\ stack' = Goto("cleanup.remove") /\ NoRaise
               \/ /\ ~lastCleanup'.gone
                  /\ Raise("Exception") /\ UNCHANGED <<docker, kernels>>
    /\ UNCHANGED <<jobVars, constructed, alarm, cur, fsops, pureVars, storage, vmVars, foundAtInit, adoptedRunning,
                   createdSince, requests>>

\* cleanup, line 233: container.remove(force=True, v=True)
CleanupRemove ==
    /\ At("cleanup.remove")
    /\ \/ /\ docker = "absent"                \* except NotFound
          /\ lastCleanup' = [lastCleanup EXCEPT !.gone = TRUE]
          /\ stack' = Goto("cleanup.finally") /\ NoRaise /\ UNCHANGED docker
       \/ /\ docker # "absent"
          /\ docker' = "absent"
          /\ stack' = Goto("cleanup.finally") /\ NoRaise
          /\ UNCHANGED lastCleanup
       \/ Raise("Exception") /\ UNCHANGED <<docker, lastCleanup>>
    /\ UNCHANGED <<jobVars, kernels, owned, constructed, alarm, cur, fsops, pureVars, storage, vmVars, foundAtInit, adoptedRunning, createdSince, cleanedSince, cleanedTrue, requests>>

\* cleanup, lines 237-238: finally; an exception other than NotFound goes on
\* propagating from here.
CleanupFinallyReraises(exc) == exc # "none"

\* Variant: the finally clause leaves the handle in place.
HandleKept == container

\* cleanup, line 238: finally: self.container = None
HandleAfterCleanup == FALSE

CleanupFinally ==
    /\ At("cleanup.finally")
    /\ container' = HandleAfterCleanup
    /\ IF CleanupFinallyReraises(Top.exc)
       THEN Raise(Top.exc)
       ELSE stack' = GotoClear("cleanup.rmtree") /\ NoRaise
    /\ UNCHANGED <<jobVars, kernels, owned, constructed, alarm, cur, fsops, pureVars, worldVars, cstatus, shouldCleanup, preserve, sshOpen, hasVm,
                   probes, foundAtInit, adoptedRunning, createdSince, cleanedSince, cleanedTrue, lastCleanup, requests>>

\* cleanup, lines 240-241
CleanupRmtree ==
    /\ At("cleanup.rmtree")
    /\ storage' = IF "delete" \in Top.arg THEN FALSE ELSE storage
    /\ fsops' = IF "delete" \in Top.arg /\ storage
                THEN fsops \cup {FsOp("delete", "host_container_dir")}
                ELSE fsops
    /\ stack' = Goto("cleanup.sshclose")
    /\ UNCHANGED <<jobVars, kernels, owned, constructed, alarm, cur, pureVars, docker, vmVars, histVars>>

\* cleanup, line 243; SSHClient.close, ssh.py lines 108-115
CleanupSshClose ==
    /\ At("cleanup.sshclose")
    /\ sshOpen' = FALSE
    /\ stack' = Goto("cleanup.return")
    /\ UNCHANGED <<jobVars, kernels, owned, constructed, alarm, cur, fsops, pureVars, worldVars, container, cstatus, shouldCleanup, preserve,
                   hasVm, probes, histVars>>

\* --------------------------------------------- SandboxVMManager (sandbox.py)
\* __init__, line 85: super().__init__
SInitSuper ==
    /\ At("sinit.super")
    /\ hasVm' = FALSE
    /\ stack' = Call("init.validate", {})
    /\ UNCHANGED <<jobVars, kernels, owned, constructed, alarm, cur, fsops, pureVars, worldVars, container, cstatus, shouldCleanup, preserve,
                   sshOpen, probes, histVars>>

\* __init__, lines 87-88
SInitFlags ==
    /\ At("sinit.flags")
    /\ shouldCleanup' = ~(container /\ cstatus = "running")
    /\ preserve' = ("preserve" \in Top.arg)
    /\ stack' = Goto("sinit.return")
    /\ UNCHANGED <<jobVars, kernels, owned, constructed, alarm, cur, fsops, pureVars, worldVars, container, cstatus, sshOpen, hasVm, probes, histVars>>

\* connect_or_start, lines 97-102
ConnectOrStart ==
    /\ At("connect_or_start.entry")
    /\ bringUp' = "running"
    /\ cleanedTrue' = FALSE
    /\ IF container /\ cstatus = "running"
       THEN stack' = Call("reconnect.start", {})
       ELSE stack' = Call("enter.try", {})
    /\ UNCHANGED <<jobVars, kernels, owned, constructed, alarm, cur, fsops, pureVars, worldVars, vmVars, foundAtInit, adoptedRunning, createdSince,
                   cleanedSince, lastCleanup, requests, sshAtCleanupEnd>>

\* __enter__, line 115
EnterTry ==
    /\ At("enter.try")
    /\ stack' = Call("start_agent_vm.start", {})
    /\ UNCHANGED <<jobVars, kernels, owned, constructed, alarm, cur, fsops, pureVars, worldVars, vmVars, histVars>>

\* __enter__, lines 116-117
EnterOk ==
    /\ At("enter.ok")
    /\ shouldCleanup' = FALSE
    /\ stack' = Goto("enter.return")
    /\ UNCHANGED <<jobVars, kernels, owned, constructed, alarm, cur, fsops, pureVars, worldVars, container, cstatus, preserve, sshOpen, hasVm,
                   probes, histVars>>

\* __enter__, lines 118-120: except Exception -> cleanup(delete_storage=True)
EnterExcept ==
    /\ At("enter.except")
    /\ stack' = Call("cleanup.stop", {"delete"})
    /\ UNCHANGED <<jobVars, kernels, owned, constructed, alarm, cur, fsops, pureVars, worldVars, vmVars, histVars>>

\* __enter__, line 121: raise
EnterRaise ==
    /\ At("enter.raise")
    /\ Raise(Top.exc)
    /\ UNCHANGED <<jobVars, kernels, owned, constructed, alarm, cur, fsops, pureVars, worldVars, vmVars, foundAtInit, adoptedRunning, createdSince, cleanedSince, cleanedTrue, lastCleanup, requests>>

\* __exit__, lines 124-129
ExitEntry ==
    /\ At("exit.entry")
    /\ stack' = Call("cleanup.stop", IF preserve THEN {} ELSE {"delete"})
    /\ UNCHANGED <<jobVars, kernels, owned, constructed, alarm, cur, fsops, pureVars, worldVars, vmVars, histVars>>

\* start_agent_vm, line 168
AgentVmStart ==
    /\ At("start_agent_vm.start")
    /\ stack' = Call("start.entry", {"wait"})
    /\ UNCHANGED <<jobVars, kernels, owned, constructed, alarm, cur, fsops, pureVars, worldVars, vmVars, histVars>>

\* start_agent_vm, line 170; mount_shared_dir, lines 142-145
AgentVmMount ==
    /\ At("start_agent_vm.mount")
    /\ \/ stack' = Goto("start_agent_vm.client") /\ NoRaise
       \/ Raise("Exception")                       \* RemoteCommandError / SSHError
    /\ UNCHANGED <<jobVars, kernels, owned, constructed, alarm, cur, fsops, pureVars, worldVars, vmVars, foundAtInit, adoptedRunning, createdSince, cleanedSince, cleanedTrue, lastCleanup, requests>>

\* start_agent_vm, line 171
AgentVmClient ==
    /\ At("start_agent_vm.client")
    /\ stack' = Call("health.probe", {})
    /\ UNCHANGED <<jobVars, kernels, owned, constructed, alarm, cur, fsops, pureVars, worldVars, vmVars, histVars>>

\* reconnect, line 175
ReconnectStart ==
    /\ At("reconnect.start")
    /\ stack' = Call("start.entry", {"wait"})
    /\ UNCHANGED <<jobVars, kernels, owned, constructed, alarm, cur, fsops, pureVars, worldVars, vmVars, histVars>>

\* reconnect, line 178
ReconnectClient ==
    /\ At("reconnect.client")
    /\ stack' = Call("health.probe", {})
    /\ UNCHANGED <<jobVars, kernels, owned, constructed, alarm, cur, fsops, pureVars, worldVars, vmVars, histVars>>

\* SandboxClient.__init__, lines 27-33: one health attempt inside the try
HealthProbe ==
    /\ At("health.probe")
    /\ \/ docker = "running" /\ stack' = Goto("health.return")
       \/ stack' = Goto("health.sleep")
    /\ UNCHANGED <<jobVars, kernels, owned, constructed, alarm, cur, fsops, pureVars, worldVars, vmVars, histVars>>

\* SandboxClient.__init__, lines 44-46: sleep, then the next attempt, or
\* ConnectionError once the attempts are used up
HealthSleep ==
    /\ At("health.sleep")
    /\ \/ stack' = Goto("health.probe")
       \/ stack' = Goto("health.convert")
    /\ UNCHANGED <<jobVars, kernels, owned, constructed, alarm, cur, fsops, pureVars, worldVars, vmVars, histVars>>

\* _initialize_sandbox_client, lines 155-164: re-raised as VMOperationError
HealthConvert ==
    /\ At("health.convert")
    /\ Raise("Exception")
    /\ UNCHANGED <<jobVars, kernels, owned, constructed, alarm, cur, fsops, pureVars, worldVars, vmVars, foundAtInit, adoptedRunning, createdSince, cleanedSince, cleanedTrue, lastCleanup, requests>>


\* ------------------------------------------------ SandboxExecutor (executor.py)
\* __init__, lines 34-37: a new executor object; it has no `vm` attribute yet
ExecInitEntry ==
    /\ At("xinit.entry")
    /\ kernelId' = FALSE /\ ws' = FALSE /\ exited' = FALSE
    /\ hasVm' = FALSE
    /\ stack' = Goto("xinit.vm")
    /\ UNCHANGED <<attempt, agent, tin, summary, saves, errlogs, started, failed, firedAt, bodyExc,
                   kernels, owned, constructed, alarm, cur, fsops, pureVars, worldVars, container, cstatus,
                   shouldCleanup, preserve, sshOpen, probes, histVars>>

\* __init__, line 41
ExecInitVm ==
    /\ At("xinit.vm")
    /\ stack' = Call("sinit.super", Top.arg)
    /\ UNCHANGED <<jobVars, kernels, owned, constructed, alarm, cur, fsops, pureVars, worldVars, vmVars, histVars>>

\* __init__, line 44
ExecInitConnect ==
    /\ At("xinit.connect")
    /\ stack' = Call("connect_or_start.entry", {})
    /\ UNCHANGED <<jobVars, kernels, owned, constructed, alarm, cur, fsops, pureVars, worldVars, vmVars, histVars>>

\* __init__, line 51
ExecInitKernel ==
    /\ At("xinit.kernel")
    /\ stack' = Call("kernel.list", {})
    /\ constructed' = constructed \cup {"kernel"}
    /\ UNCHANGED <<jobVars, kernels, owned, alarm, cur, fsops, pureVars, worldVars, vmVars, histVars>>

\* __init__, line 53; install_packages -> run_code_raise_errors
ExecInitInstall ==
    /\ At("xinit.install")
    /\ \/ stack' = Goto("xinit.return") /\ NoRaise
       \/ Raise("Exception")                       \* AgentError / ConnectionError
    /\ UNCHANGED <<jobVars, kernels, owned, constructed, alarm, cur, fsops, pureVars, worldVars, vmVars,
                   foundAtInit, adoptedRunning, createdSince, cleanedSince, cleanedTrue, lastCleanup, requests>>

\* __init__, lines 56-58: except Exception -> self.cleanup()
ExecInitExcept ==
    /\ At("xinit.except")
    /\ stack' = Call("xcleanup.entry", {})
    /\ UNCHANGED <<jobVars, kernels, owned, constructed, alarm, cur, fsops, pureVars, worldVars, vmVars, histVars>>

\* __init__, line 59: raise
ExecInitRaise ==
    /\ At("xinit.raise")
    /\ Raise(Top.exc)
    /\ UNCHANGED <<jobVars, kernels, owned, constructed, alarm, cur, fsops, pureVars, worldVars, vmVars,
                   foundAtInit, adoptedRunning, createdSince, cleanedSince, cleanedTrue, lastCleanup, requests>>

\* _initialize_kernel_connection, lines 74-85: list the contexts, reuse the first
KernelList ==
    /\ At("kernel.list")
    /\ attempt' = 0
    /\ \/ /\ docker = "running" /\ kernels > 0
          /\ kernelId' = TRUE
          /\ stack' = Goto("kernel.ws")
       \/ \* the list is empty; or requests.get(..., timeout=5) raised or answered
          \* non-200 (lines 78, 81-82), which leaves existing_kernels empty as well
          /\ stack' = Goto("kernel.create")
          /\ UNCHANGED kernelId
    /\ UNCHANGED <<ws, exited, agent, tin, summary, saves, errlogs, started, failed, firedAt, bodyExc,
                   kernels, owned, constructed, alarm, cur, fsops, pureVars, worldVars, vmVars, histVars>>

\* lines 87 and 102-103: for attempt in range(retries) ... else: raise RuntimeError
KernelCreate ==
    /\ At("kernel.create")
    /\ IF attempt >= Retries
       THEN Raise("Exception") /\ attempt' = 0
       ELSE attempt' = attempt + 1 /\ stack' = Goto("kernel.post") /\ NoRaise
    /\ UNCHANGED <<kernelId, ws, exited, agent, tin, summary, saves, errlogs, started, failed, firedAt,
                   bodyExc, kernels, owned, constructed, alarm, cur, fsops, pureVars, worldVars, vmVars,
                   foundAtInit, adoptedRunning, createdSince, cleanedSince, cleanedTrue, lastCleanup, requests>>

\* lines 88-98: the create request
KernelPost ==
    /\ At("kernel.post")
    /\ \/ /\ docker = "running" /\ kernels < MaxKernels      \* 201
          /\ kernels' = kernels + 1
          /\ kernelId' = TRUE
          /\ attempt' = 0
          /\ stack' = Goto("kernel.ws")
       \/ /\ stack' = Goto("kernel.create")                            \* other status
          /\ UNCHANGED <<kernels, kernelId, attempt>>
       \/ /\ stack' = Goto("kernel.create_sleep")                      \* request raised
          /\ UNCHANGED <<kernels, kernelId, attempt>>
    /\ UNCHANGED <<ws, exited, agent, tin, summary, saves, errlogs, started, failed, firedAt, bodyExc,
                   owned, constructed, alarm, cur, fsops, pureVars, worldVars, vmVars, histVars>>

\* line 101: time.sleep(delay) in the except clause
KernelCreateSleep ==
    /\ At("kernel.create_sleep")
    /\ stack' = Goto("kernel.create")
    /\ UNCHANGED <<jobVars, kernels, owned, constructed, alarm, cur, fsops, pureVars, worldVars, vmVars, histVars>>

\* lines 107 and 118: for attempt in range(retries) ...; raise RuntimeError
KernelWs ==
    /\ At("kernel.ws")
    /\ IF attempt >= Retries
       THEN Raise("Exception") /\ attempt' = 0
       ELSE attempt' = attempt + 1 /\ stack' = Goto("kernel.connect") /\ NoRaise
    /\ UNCHANGED <<kernelId, ws, exited, agent, tin, summary, saves, errlogs, started, failed, firedAt,
                   bodyExc, kernels, owned, constructed, alarm, cur, fsops, pureVars, worldVars, vmVars,
                   foundAtInit, adoptedRunning, createdSince, cleanedSince, cleanedTrue, lastCleanup, requests>>

\* lines 108-112: create_connection
KernelConnect ==
    /\ At("kernel.connect")
    /\ \/ /\ docker = "running"
          /\ ws' = TRUE
          /\ attempt' = 0
          /\ stack' = Goto("kernel.return")
       \/ /\ stack' = Goto("kernel.ws_sleep")
          /\ UNCHANGED <<ws, attempt>>
    /\ UNCHANGED <<kernelId, exited, agent, tin, summary, saves, errlogs, started, failed,
                   firedAt, bodyExc, kernels, owned, constructed, alarm, cur, fsops, pureVars, worldVars,
                   vmVars, histVars>>

\* line 117: time.sleep(delay) in the except clause
KernelWsSleep ==
    /\ At("kernel.ws_sleep")
    /\ stack' = Goto("kernel.ws")
    /\ UNCHANGED <<jobVars, kernels, owned, constructed, alarm, cur, fsops, pureVars, worldVars, vmVars, histVars>>

\* cleanup, lines 215-216
ExecCleanupEntry ==
    /\ At("xcleanup.entry")
    /\ stack' = Goto(IF exited THEN "xcleanup.return" ELSE "xcleanup.delete")
    /\ UNCHANGED <<jobVars, kernels, owned, constructed, alarm, cur, fsops, pureVars, worldVars, vmVars, histVars>>

\* cleanup, lines 219-220: delete the execution context
ExecCleanupDelete ==
    /\ At("xcleanup.delete")
    /\ IF kernelId
       THEN \/ /\ kernels' = (IF kernels > 0 THEN kernels - 1 ELSE 0)
               /\ stack' = Goto("xcleanup.wsclose") /\ NoRaise
            \/ Raise("Exception") /\ UNCHANGED kernels    \* gateway unreachable
       ELSE stack' = Goto("xcleanup.wsclose") /\ NoRaise /\ UNCHANGED kernels
    /\ UNCHANGED <<jobVars, owned, constructed, alarm, cur, fsops, pureVars, worldVars, vmVars,
                   foundAtInit, adoptedRunning, createdSince, cleanedSince, cleanedTrue, lastCleanup, requests>>

\* cleanup, lines 221-222: close the streaming connection
ExecCleanupWsClose ==
    /\ At("xcleanup.wsclose")
    /\ IF ws
       THEN \/ stack' = Goto("xcleanup.vmexit") /\ NoRaise
            \/ Raise("Exception")
       ELSE stack' = Goto("xcleanup.vmexit") /\ NoRaise
    /\ UNCHANGED <<jobVars, kernels, owned, constructed, alarm, cur, fsops, pureVars, worldVars, vmVars,
                   foundAtInit, adoptedRunning, createdSince, cleanedSince, cleanedTrue, lastCleanup, requests>>

\* cleanup, lines 223-224: tear the sandbox down
ExecCleanupVmExit ==
    /\ At("xcleanup.vmexit")
    /\ stack' = IF hasVm THEN Call("exit.entry", {}) ELSE Goto("xcleanup.exited")
    /\ UNCHANGED <<jobVars, kernels, owned, constructed, alarm, cur, fsops, pureVars, worldVars, vmVars, histVars>>

\* cleanup, line 228
\* Variant: the flag is left as it was.
ExitedKept == exited

\* cleanup, line 228: self._exited = True
ExitedAfterCleanup == TRUE

ExecCleanupExited ==
    /\ At("xcleanup.exited")
    /\ exited' = ExitedAfterCleanup
    /\ stack' = Goto("xcleanup.return")
    /\ UNCHANGED <<kernelId, ws, attempt, agent, tin, summary, saves, errlogs, started, failed,
                   firedAt, bodyExc, kernels, owned, constructed, alarm, cur, fsops, pureVars, worldVars,
                   vmVars, histVars>>

\* SandboxCodeAgent.cleanup, sandbox_agent.py lines 38-45
AgentCleanup ==
    /\ At("acleanup.call")
    /\ stack' = Call("xcleanup.entry", {})
    /\ UNCHANGED <<jobVars, kernels, owned, constructed, alarm, cur, fsops, pureVars, worldVars, vmVars, histVars>>

ExecStep ==
    \/ ExecInitEntry \/ ExecInitVm \/ ExecInitConnect \/ ExecInitKernel \/ ExecInitInstall \/ ExecInitExcept
    \/ ExecInitRaise \/ KernelList \/ KernelCreate \/ KernelPost \/ KernelCreateSleep
    \/ KernelWs \/ KernelConnect \/ KernelWsSleep \/ ExecCleanupEntry \/ ExecCleanupDelete
    \/ ExecCleanupWsClose \/ ExecCleanupVmExit \/ ExecCleanupExited \/ AgentCleanup

\* ------------------------------------ Orchestrator (benchmark/orchestrator.py)
\* run_benchmark, lines 68-69: the next job of the index.  The job brings its
\* own uid, hence its own container name and result directory; a container
\* left over under that name may exist.  The objects of the previous job
\* (agent, executor, manager, session) are no longer referenced.
LeftOver == {"absent", "running", "exited"}

BenchLoop ==
    /\ At("bench.loop") /\ cur < NumTasks
    /\ cur' = cur + 1
    /\ started' = Append(started, cur + 1)
    /\ stack' = Call("single.enter", {})
    /\ docker' \in LeftOver
    /\ storage' = (docker' # "absent")
    /\ kernels' \in (IF docker' = "running" THEN 0..1 ELSE {0})
    /\ container' = FALSE /\ cstatus' = "absent"
    /\ shouldCleanup' = FALSE /\ preserve' = FALSE
    /\ sshOpen' = FALSE /\ hasVm' = FALSE /\ probes' = 0
    /\ foundAtInit' = FALSE /\ adoptedRunning' = FALSE /\ createdSince' = FALSE
    /\ cleanedSince' = FALSE /\ cleanedTrue' = FALSE /\ bringUp' = "no"
    /\ sshAtCleanupEnd' = FALSE
    /\ lastCleanup' = NoCleanup
    /\ requests' = NoRequests
    /\ fsops' = {}
    /\ kernelId' = FALSE /\ ws' = FALSE /\ exited' = FALSE /\ attempt' = 0
    /\ agent' = FALSE
    /\ tin' = NoOutput
    /\ summary' = NoOutput
    /\ saves' = 0
    /\ errlogs' = {}
    /\ firedAt' = "none" /\ bodyExc' = FALSE /\ owned' = FALSE
    /\ constructed' = {}
    /\ UNCHANGED <<alarm, failed, pureVars>>

\* run_benchmark, line 71: the index is exhausted
BenchDone ==
    /\ At("bench.loop") /\ cur >= NumTasks
    /\ stack' = Goto("bench.done")
    /\ UNCHANGED <<jobVars, kernels, owned, constructed, alarm, cur, fsops, pureVars, worldVars, vmVars, histVars>>

\* _run_single_task_with_timeout, lines 78-81: Timeout.__enter__ arms the alarm
SingleEnter ==
    /\ At("single.enter")
    /\ alarm' = "armed"
    /\ stack' = CallFrom("single.with", "worker.entry", {})
    /\ UNCHANGED <<jobVars, kernels, owned, constructed, cur, fsops, pureVars, worldVars, vmVars, histVars>>

\* lines 81-87: Timeout.__exit__ disarms the alarm; the outcome is only logged
SingleExit ==
    /\ At("single.exit")
    /\ alarm' = "off"
    /\ stack' = Goto("single.return")
    /\ UNCHANGED <<jobVars, kernels, owned, constructed, cur, fsops, pureVars, worldVars, vmVars, histVars>>

\* lines 89-101: except TimeoutError
SingleTimeout ==
    /\ At("single.timeout")
    /\ alarm' = "off"
    /\ tin' = Output("TIMED_OUT", 0, "None")
    /\ summary' = Output("TIMED_OUT", 0, "None")
    /\ saves' = saves + 1
    /\ failed' = failed \cup {cur}
    /\ stack' = Goto("single.return")
    /\ UNCHANGED <<kernelId, ws, exited, attempt, agent, errlogs, started, firedAt, bodyExc,
                   kernels, owned, constructed, cur, fsops, pureVars, worldVars, vmVars, histVars>>

\* lines 102-118: except Exception; task_input_result is still None here
SingleError ==
    /\ At("single.error")
    /\ alarm' = "off"
    /\ errlogs' = errlogs \cup {"ORCHESTRATOR_ERROR"}
    /\ tin' = Output("ORCHESTRATOR_ERROR", 0, "None")
    /\ summary' = Output("ORCHESTRATOR_ERROR", 0, "None")
    /\ saves' = saves + 1
    /\ failed' = failed \cup {cur}
    /\ stack' = Goto("single.return")
    /\ UNCHANGED <<kernelId, ws, exited, attempt, agent, started, firedAt, bodyExc,
                   kernels, owned, constructed, cur, fsops, pureVars, worldVars, vmVars, histVars>>

\* _task_worker, lines 128-135: the placeholder record
WorkerEntry ==
    /\ At("worker.entry")
    /\ tin' = Output("INITIALIZING", 0, "None")
    /\ stack' = Goto("worker.from_file")
    /\ UNCHANGED <<kernelId, ws, exited, attempt, agent, summary, saves, errlogs, started, failed,
                   firedAt, bodyExc, kernels, owned, constructed, alarm, cur, fsops, pureVars, worldVars,
                   vmVars, histVars>>

\* lines 136-141; TaskInput.from_file, task.py lines 89-110
WorkerFromFile ==
    /\ At("worker.from_file")
    /\ \/ /\ tin' = Output("None", 0, "None")      \* loaded: a default TaskOutput
          /\ stack' = Goto("worker.config") /\ NoRaise
       \/ /\ stack' = [stack EXCEPT ![Len(stack)] =   \* except FileNotFoundError
                          [pc |-> "worker.fnf", exc |-> "none", arg |-> {"fnf"}]]
          /\ NoRaise /\ UNCHANGED tin
       \/ /\ Raise("Exception") /\ UNCHANGED tin   \* JSONDecodeError, KeyError
    /\ UNCHANGED <<kernelId, ws, exited, attempt, agent, summary, saves, errlogs, started, failed,
                   firedAt, bodyExc, kernels, owned, constructed, alarm, cur, fsops, pureVars, worldVars,
                   vmVars, foundAtInit, adoptedRunning, createdSince, cleanedSince, cleanedTrue, lastCleanup, requests>>

\* Variant: the worker falls through to the try block instead of returning.
FnfNextFallsThrough == "worker.config"

\* where the worker goes after recording the missing descriptor (line 146: return)
FnfNext == "worker.return"

\* lines 142-146
WorkerFnf ==
    /\ At("worker.fnf")
    /\ errlogs' = errlogs \cup {"TASK_DEFINITION_ERROR"}
    /\ tin' = [tin EXCEPT !.state = "SETUP_ERROR"]
    /\ stack' = Goto(FnfNext)
    /\ UNCHANGED <<kernelId, ws, exited, attempt, agent, summary, saves, started, failed, firedAt,
                   bodyExc, kernels, owned, constructed, alarm, cur, fsops, pureVars, worldVars, vmVars,
                   histVars>>

\* lines 148-160: agent = None; SandboxVMConfig(...)
WorkerConfig ==
    /\ At("worker.config")
    /\ agent' = FALSE
    /\ constructed' = constructed \cup {"config"}
    /\ stack' = Goto("worker.agent")
    /\ UNCHANGED <<kernelId, ws, exited, attempt, tin, summary, saves, errlogs, started, failed,
                   firedAt, bodyExc, kernels, owned, alarm, cur, fsops, pureVars, worldVars, vmVars, histVars>>

\* lines 163-173: SandboxCodeAgent(...) -> create_python_executor -> SandboxExecutor(...)
WorkerAgent ==
    /\ At("worker.agent")
    /\ constructed' = constructed \cup {"executor"}
    /\ stack' = Call("xinit.entry", {})
    /\ UNCHANGED <<jobVars, kernels, owned, alarm, cur, fsops, pureVars, worldVars, vmVars, histVars>>

\* line 163: the constructed agent is bound to the local name
WorkerAssign ==
    /\ At("worker.assign")
    /\ agent' = TRUE
    /\ stack' = Goto("worker.process")
    /\ UNCHANGED <<kernelId, ws, exited, attempt, tin, summary, saves, errlogs, started, failed,
                   firedAt, bodyExc, kernels, owned, constructed, alarm, cur, fsops, pureVars, worldVars,
                   vmVars, histVars>>

\* line 176
WorkerProcess ==
    /\ At("worker.process")
    /\ stack' = Call("process.setup", {})
    /\ UNCHANGED <<jobVars, kernels, owned, constructed, alarm, cur, fsops, pureVars, worldVars, vmVars, histVars>>

\* lines 177-181: except Exception
WorkerExcept ==
    /\ At("worker.except")
    /\ errlogs' = errlogs \cup {"WORKER_ERROR"}
    /\ tin' = [tin EXCEPT !.state = "ORCHESTRATOR_ERROR"]
    /\ stack' = Goto("worker.finally")
    /\ UNCHANGED <<kernelId, ws, exited, attempt, agent, summary, saves, started, failed, firedAt,
                   bodyExc, kernels, owned, constructed, alarm, cur, fsops, pureVars, worldVars, vmVars,
                   histVars>>

\* lines 182-185: finally: if agent: agent.cleanup()
WorkerFinally ==
    /\ At("worker.finally")
    /\ stack' = IF agent THEN Call("acleanup.call", {}) ELSE Goto("worker.finally_end")
    /\ UNCHANGED <<jobVars, kernels, owned, constructed, alarm, cur, fsops, pureVars, worldVars, vmVars, histVars>>

\* end of the finally block: a pending exception goes on, else lines 187-188
WorkerFinallyEnd ==
    /\ At("worker.finally_end")
    /\ IF Top.exc # "none"
       THEN Raise(Top.exc)
       ELSE stack' = Goto("worker.return") /\ NoRaise
    /\ UNCHANGED <<jobVars, kernels, owned, constructed, alarm, cur, fsops, pureVars, worldVars, vmVars,
                   foundAtInit, adoptedRunning, createdSince, cleanedSince, cleanedTrue, lastCleanup, requests>>

\* _process_task, line 194; _handle_setup, lines 236-245
ProcessSetup ==
    /\ At("process.setup")
    /\ \/ /\ stack' = Goto("process.run") /\ NoRaise /\ UNCHANGED bodyExc
       \/ /\ bodyExc' = TRUE /\ Raise("Exception")     \* a setup step raised
    /\ UNCHANGED <<kernelId, ws, exited, attempt, agent, tin, summary, saves, errlogs, started, failed,
                   firedAt, kernels, owned, constructed, alarm, cur, fsops, pureVars, worldVars, vmVars,
                   foundAtInit, adoptedRunning, createdSince, cleanedSince, cleanedTrue, lastCleanup, requests>>

\* lines 195-202: agent.run(...); task_input.output = TaskOutput(source_result=...)
ProcessRun ==
    /\ At("process.run")
    /\ \/ /\ \E st \in {"success", "max_steps_error"} : tin' = Output(st, 0, "None")
          /\ stack' = Goto("process.eval") /\ NoRaise /\ UNCHANGED bodyExc
       \/ /\ bodyExc' = TRUE /\ Raise("Exception") /\ UNCHANGED tin
    /\ UNCHANGED <<kernelId, ws, exited, attempt, agent, summary, saves, errlogs, started, failed,
                   firedAt, kernels, owned, constructed, alarm, cur, fsops, pureVars, worldVars, vmVars,
                   foundAtInit, adoptedRunning, createdSince, cleanedSince, cleanedTrue, lastCleanup, requests>>

\* line 203; _handle_evaluation, lines 250-258 and 268-272
ProcessEval ==
    /\ At("process.eval")
    /\ \/ /\ tin' = [tin EXCEPT !.score = -1]          \* no evaluation function
          /\ stack' = Goto("process.finally")
       \/ /\ tin' = [tin EXCEPT !.score = 0]           \* unknown evaluation function
          /\ stack' = Goto("process.finally")
       \/ /\ stack' = Goto("process.eval_call")        \* a registered function
          /\ UNCHANGED tin
    /\ UNCHANGED <<kernelId, ws, exited, attempt, agent, summary, saves, errlogs, started, failed,
                   firedAt, bodyExc, kernels, owned, constructed, alarm, cur, fsops, pureVars, worldVars,
                   vmVars, histVars>>

\* _handle_evaluation, lines 260-263
ProcessEvalCall ==
    /\ At("process.eval_call")
    /\ \/ /\ \E sc \in {0, 1} : tin' = [tin EXCEPT !.score = sc]
          /\ stack' = Goto("process.finally") /\ NoRaise
       \/ /\ Raise("Exception") /\ UNCHANGED tin
    /\ UNCHANGED <<kernelId, ws, exited, attempt, agent, summary, saves, errlogs, started, failed,
                   firedAt, bodyExc, kernels, owned, constructed, alarm, cur, fsops, pureVars, worldVars,
                   vmVars, foundAtInit, adoptedRunning, createdSince, cleanedSince, cleanedTrue, lastCleanup, requests>>

\* _handle_evaluation, lines 264-268: except Exception
ProcessEvalExcept ==
    /\ At("process.eval_except")
    /\ errlogs' = errlogs \cup {"EVALUATION_ERROR"}
    /\ tin' = [tin EXCEPT !.score = 0]
    /\ stack' = Goto("process.finally")
    /\ UNCHANGED <<kernelId, ws, exited, attempt, agent, summary, saves, started, failed, firedAt,
                   bodyExc, kernels, owned, constructed, alarm, cur, fsops, pureVars, worldVars, vmVars,
                   histVars>>

\* _process_task, lines 206-210: the record is replaced by
\* TaskOutput(eval_error=..., score=0.0); state and error_log_path stay None
ProcessExceptOutput == Output("None", 0, "None")

ProcessExcept ==
    /\ At("process.except")
    /\ errlogs' = errlogs \cup {"TASK_EXECUTION_ERROR"}
    /\ tin' = ProcessExceptOutput
    /\ stack' = Goto("process.finally")
    /\ UNCHANGED <<kernelId, ws, exited, attempt, agent, summary, saves, started, failed, firedAt,
                   bodyExc, kernels, owned, constructed, alarm, cur, fsops, pureVars, worldVars, vmVars,
                   histVars>>

\* _process_task, lines 211-216: finally: save_result_summary (task.py 112-128)
ProcessFinally ==
    /\ At("process.finally")
    /\ summary' = tin
    /\ saves' = saves + 1
    /\ IF Top.exc # "none"
       THEN Raise(Top.exc)
       ELSE stack' = Goto("process.return") /\ NoRaise
    /\ UNCHANGED <<kernelId, ws, exited, attempt, agent, tin, errlogs, started, failed, firedAt,
                   bodyExc, kernels, owned, constructed, alarm, cur, fsops, pureVars, worldVars, vmVars,
                   foundAtInit, adoptedRunning, createdSince, cleanedSince, cleanedTrue, lastCleanup, requests>>

\* Labels of _process_task's own steps: setup, agent run, evaluation.
JobStepLabels == {"process.setup", "process.run", "process.eval", "process.eval_call"}

\* benchmark/utils.py, lines 22-23: SIGALRM is delivered and _handle_timeout
\* raises TimeoutError in whatever frame is executing.  An exception that
\* leaves the with block runs Timeout.__exit__ (lines 30-32) on its way to the
\* runner's except clauses, so the alarm is no longer pending there.
AlarmFires ==
    /\ alarm = "armed" /\ stack # <<>>
    /\ Top.pc \notin {"single.timeout", "single.error"}
    /\ alarm' = "fired"
    /\ firedAt' = IF Top.pc \in JobStepLabels THEN "body" ELSE "other"
    /\ Raise("TimeoutError")
    /\ UNCHANGED <<kernelId, ws, exited, attempt, agent, tin, summary, saves, errlogs, started, failed,
                   bodyExc, kernels, owned, constructed, cur, fsops, pureVars, worldVars, vmVars,
                   foundAtInit, adoptedRunning, createdSince, cleanedSince, cleanedTrue, lastCleanup, requests>>

OrchStep ==
    \/ BenchLoop \/ BenchDone \/ SingleEnter \/ SingleExit \/ SingleTimeout \/ SingleError
    \/ WorkerEntry \/ WorkerFromFile \/ WorkerFnf \/ WorkerConfig \/ WorkerAgent
    \/ WorkerAssign \/ WorkerProcess \/ WorkerExcept \/ WorkerFinally \/ WorkerFinallyEnd
    \/ ProcessSetup \/ ProcessRun \/ ProcessEval \/ ProcessEvalCall \/ ProcessEvalExcept
    \/ ProcessExcept \/ ProcessFinally \/ AlarmFires

\* ------------------------------------------------- parts that are not running
\* generate_port_pool has not been called.
PoolIdle ==
    /\ start = 0 /\ max_conc = 0 /\ keys = <<>>
    /\ port = 0 /\ pool = <<>> /\ poolFile = "none" /\ poolPc = "idle"

\* No descriptor is being validated.
CfgIdle == cfg = "none" /\ validation = "pending"

NoFragment == [prints |-> <<>>, final |-> FALSE, fails |-> FALSE]
NoKernelRun == [req |-> 0, out |-> <<>>, fails |-> FALSE, phase |-> "idle"]
NoOutcome == [kind |-> "none", result |-> "None", text |-> <<>>]
NoSeen == [dropped |-> FALSE, idle |-> FALSE, error |-> FALSE]

\* No code is being run on the kernel.
NoChannel == [out |-> <<>>, err |-> <<>>, stdin |-> <<>>, exit |-> -1, closed |-> FALSE]
NoRemote == [phase |-> "none", out |-> <<>>, err |-> <<>>, writes |-> 0]
NoLocals == [cmd_to_execute |-> <<>>, needs_pty |-> FALSE, stdout_data_parts |-> <<>>,
             stderr_data_parts |-> <<>>, read_buffer |-> <<>>, password_sent |-> FALSE,
             exit_status_ready |-> FALSE]
NoReturn == [kind |-> "none", command |-> <<>>, status |-> -1, stdout |-> <<>>, stderr |-> <<>>]

\* No exec_command call is being made.
SshIdle ==
    /\ sshPc = "off" /\ call = "none" /\ channel = NoChannel /\ remote = NoRemote
    /\ loc = NoLocals /\ elapsed = FALSE /\ ret = NoReturn

\* No file is being transferred.
XferIdle ==
    /\ xferPc = "off" /\ scene = "none" /\ lfs = {} /\ rfs = {} /\ xcalls = <<>> /\ walk = <<>>

NoProbe == [kind |-> "none", stdout |-> <<>>]
NoWaits == [entries |-> 0, probes |-> 0]
NoWaitOutcome == [wait |-> "none", start |-> "none"]

\* start is not being called on its own.
WaitIdle ==
    /\ wpc = "off" /\ wait_for_ssh = FALSE /\ now = 0 /\ probe = NoProbe
    /\ waited = NoWaits /\ wout = NoWaitOutcome

\* No SSHClient is being used on its own.
NoHanded == [op |-> "none", sftp |-> 0, client |-> 0]
SftpIdle == client = 0 /\ sftp = 0 /\ sessions = 0 /\ active = {} /\ handed = NoHanded

ShellIdle == SshIdle /\ XferIdle /\ WaitIdle /\ SftpIdle

RunIdle ==
    /\ rpc = "off" /\ runs = 0 /\ fragment = NoFragment /\ return_final_answer = FALSE
    /\ msg_id = 0 /\ outputs = <<>> /\ result = "None" /\ waiting_for_idle = FALSE
    /\ inbox = <<>> /\ kernelq = <<>> /\ kernel = NoKernelRun
    /\ outcome = NoOutcome /\ seen = NoSeen

\* ------------------------------------------------------- library client
UserInit ==
    /\ At("user.idle")
    /\ \E a \in {{}, {"preserve"}} : stack' = CallFrom("user.init", "sinit.super", a)
    /\ UNCHANGED <<jobVars, kernels, owned, constructed, alarm, cur, fsops, pureVars, worldVars, vmVars, foundAtInit, adoptedRunning, createdSince, cleanedSince,
                   cleanedTrue, lastCleanup, requests, bringUp, sshAtCleanupEnd>>

UserStart ==
    /\ At("user.idle") /\ hasVm
    /\ \E a \in SUBSET {"wait", "restart"} : stack' = CallFrom("user.start", "start.entry", a)
    /\ UNCHANGED <<jobVars, kernels, owned, constructed, alarm, cur, fsops, pureVars, worldVars, vmVars, foundAtInit, adoptedRunning, createdSince, cleanedSince,
                   cleanedTrue, lastCleanup, requests, bringUp, sshAtCleanupEnd>>

UserCleanup ==
    /\ At("user.idle") /\ hasVm
    /\ \E a \in {{}, {"delete"}} : stack' = CallFrom("user.cleanup", "cleanup.stop", a)
    /\ UNCHANGED <<jobVars, kernels, owned, constructed, alarm, cur, fsops, pureVars, worldVars, vmVars, foundAtInit, adoptedRunning, createdSince, cleanedSince,
                   cleanedTrue, lastCleanup, requests, bringUp, sshAtCleanupEnd>>

UserConnectOrStart ==
    /\ At("user.idle") /\ hasVm
    /\ stack' = CallFrom("user.connect_or_start", "connect_or_start.entry", {})
    /\ UNCHANGED <<jobVars, kernels, owned, constructed, alarm, cur, fsops, pureVars, worldVars, vmVars, foundAtInit, adoptedRunning, createdSince, cleanedSince,
                   cleanedTrue, lastCleanup, requests, bringUp, sshAtCleanupEnd>>

UserExit ==
    /\ At("user.idle") /\ hasVm
    /\ stack' = CallFrom("user.exit", "exit.entry", {})
    /\ UNCHANGED <<jobVars, kernels, owned, constructed, alarm, cur, fsops, pureVars, worldVars, vmVars, foundAtInit, adoptedRunning, createdSince, cleanedSince,
                   cleanedTrue, lastCleanup, requests, bringUp, sshAtCleanupEnd>>

\* The container is removed behind the manager's back (docker rm -f).
EnvRemove ==
    /\ docker # "absent"
    /\ docker' = "absent"
    /\ kernels' = 0
    /\ UNCHANGED <<jobVars, owned, constructed, stack, alarm, cur, fsops, pureVars, storage, vmVars, histVars>>

VmStep ==
    \/ VMInitValidate \/ VMInitAttach \/ StartEntry \/ StartWait \/ StartConnect
    \/ WaitProbe \/ WaitSleep \/ CreateEnsureImage \/ CreateCopy \/ CreateRun
    \/ CleanupStop \/ CleanupRemove \/ CleanupFinally \/ CleanupRmtree \/ CleanupSshClose
    \/ SInitSuper \/ SInitFlags \/ ConnectOrStart \/ EnterTry \/ EnterOk \/ EnterExcept
    \/ EnterRaise \/ ExitEntry \/ AgentVmStart \/ AgentVmMount \/ AgentVmClient
    \/ ReconnectStart \/ ReconnectClient \/ HealthProbe \/ HealthSleep \/ HealthConvert
    \/ Return

\* -------------------------------------------- client of SandboxExecutor
\* executor = SandboxExecutor(...): executor.py lines 24-59
UserExecInit ==
    /\ At("user.idle")
    /\ agent' = FALSE
    /\ \E a \in {{}, {"preserve"}} : stack' = CallFrom("user.xinit", "xinit.entry", a)
    /\ UNCHANGED <<kernelId, ws, exited, attempt, tin, summary, saves, errlogs, started, failed,
                   firedAt, bodyExc, kernels, owned, constructed, alarm, cur, fsops, pureVars,
                   worldVars, vmVars, histVars>>

\* The constructor returned: the caller holds the executor.
UserExecBind ==
    /\ At("user.bind")
    /\ agent' = TRUE
    /\ stack' = Goto("user.idle")
    /\ UNCHANGED <<kernelId, ws, exited, attempt, tin, summary, saves, errlogs, started, failed,
                   firedAt, bodyExc, kernels, owned, constructed, alarm, cur, fsops, pureVars,
                   worldVars, vmVars, histVars>>

\* executor.cleanup() / executor.delete() (lines 214-231), or the agent's
\* cleanup that wraps it (sandbox_agent.py lines 36-45)
UserExecCleanup ==
    /\ At("user.idle") /\ agent
    /\ \E l \in {"xcleanup.entry", "acleanup.call"} : stack' = CallFrom("user.xcleanup", l, {})
    /\ UNCHANGED <<jobVars, kernels, owned, constructed, alarm, cur, fsops, pureVars, worldVars,
                   vmVars, histVars>>

InitLib ==
    /\ stack = <<Frame("user.idle", {})>>
    /\ alarm = "off"
    /\ cur = 1
    /\ docker \in Status
    /\ storage \in BOOLEAN
    /\ container = FALSE /\ cstatus = "absent"
    /\ shouldCleanup = FALSE /\ preserve = FALSE
    /\ sshOpen = FALSE /\ hasVm = FALSE /\ probes = 0
    /\ foundAtInit = FALSE /\ adoptedRunning = FALSE /\ createdSince = FALSE
    /\ cleanedSince = FALSE /\ cleanedTrue = FALSE /\ bringUp = "no"
    /\ sshAtCleanupEnd = FALSE
    /\ lastCleanup = NoCleanup /\ requests = NoRequests
    /\ fsops = {}
    /\ kernels \in (IF docker = "running" THEN 0..1 ELSE {0})
    /\ kernelId = FALSE /\ ws = FALSE /\ exited = FALSE /\ attempt = 0
    /\ agent = FALSE
    /\ tin = NoOutput
    /\ summary = NoOutput
    /\ saves = 0
    /\ errlogs = {}
    /\ started = <<>>
    /\ failed = {}
    /\ firedAt = "none" /\ bodyExc = FALSE /\ owned = FALSE
    /\ constructed = {}
    /\ PoolIdle /\ CfgIdle /\ RunIdle /\ ShellIdle

NextLib ==
    \/ UserInit \/ UserStart \/ UserCleanup \/ UserConnectOrStart \/ UserExit
    \/ EnvRemove
    \/ VmStep

SpecLib == InitLib /\ [][NextLib]_vars

NextExec ==
    \/ UserExecInit \/ UserExecBind \/ UserExecCleanup
    \/ EnvRemove
    \/ ExecStep
    \/ VmStep

SpecExec == InitLib /\ [][NextExec]_vars

\* ------------------------------------------------------------ benchmark run
\* Containers left over from an earlier run may exist under a job's name.
\* The orchestrator before its first job.
BenchInit ==
    /\ stack = <<Frame("bench.loop", {})>>
    /\ alarm = "off"
    /\ cur = 0
    /\ docker = "absent"
    /\ storage = FALSE
    /\ container = FALSE /\ cstatus = "absent"
    /\ shouldCleanup = FALSE /\ preserve = FALSE
    /\ sshOpen = FALSE /\ hasVm = FALSE /\ probes = 0
    /\ foundAtInit = FALSE /\ adoptedRunning = FALSE /\ createdSince = FALSE
    /\ cleanedSince = FALSE /\ cleanedTrue = FALSE /\ bringUp = "no"
    /\ sshAtCleanupEnd = FALSE
    /\ lastCleanup = NoCleanup /\ requests = NoRequests
    /\ fsops = {}
    /\ kernels = 0
    /\ kernelId = FALSE /\ ws = FALSE /\ exited = FALSE /\ attempt = 0
    /\ agent = FALSE
    /\ tin = NoOutput
    /\ summary = NoOutput
    /\ saves = 0
    /\ errlogs = {}
    /\ started = <<>>
    /\ failed = {}
    /\ firedAt = "none" /\ bodyExc = FALSE /\ owned = FALSE
    /\ constructed = {}

Init == BenchInit /\ PoolIdle /\ CfgIdle /\ RunIdle /\ ShellIdle

Next == OrchStep \/ ExecStep \/ VmStep

Spec == Init /\ [][Next]_vars

\* The orchestrator's variables, for the steps of the parts modelled on their own.
benchVars == <<stack, alarm, cur, fsops, docker, storage, vmVars, histVars, jobVars,
               kernels, owned, constructed>>

\* ------------------------------------------- generate_port_pool (utils.py)
MaxConc == 3
MaxKeys == 3
PortKeys == {"ssh", "vnc", "fastapi"}
StartPorts == {1, 60000}

Range(f) == {f[i] : i \in DOMAIN f}
Max(a, b) == IF a >= b THEN a ELSE b
Distinct(ks) == \A i, j \in DOMAIN ks : i # j => ks[i] # ks[j]

\* Lists of at most n port keys.
KeyLists(n) == UNION {[1..m -> PortKeys] : m \in 0..n}

\* line 84: effective_max_conc = max(1, max_conc)
EffectiveMaxConc == Max(1, max_conc)

\* line 86: {k: port + i for i, k in enumerate(keys)}; a key listed twice keeps
\* the value of its last position.
Mapping(ks, p) ==
    [k \in Range(ks) |->
        p + (CHOOSE i \in DOMAIN ks : ks[i] = k /\ \A j \in DOMAIN ks : ks[j] = k => j <= i) - 1]

\* Variant: the base moves on by one port per block.
NextBlockBaseByOne(p, ks) == p + 1

\* line 88: port += len(keys)
NextBlockBase(p, ks) == p + Len(ks)

\* lines 82-84
PoolEntry ==
    /\ poolPc = "entry"
    /\ pool' = <<>>
    /\ port' = start
    /\ poolPc' = "loop"
    /\ UNCHANGED <<start, max_conc, keys, poolFile, cfgVars, runVars, benchVars, shellVars>>

\* lines 85-88: one iteration
PoolLoop ==
    /\ poolPc = "loop"
    /\ Len(pool) < EffectiveMaxConc
    /\ pool' = Append(pool, Mapping(keys, port))
    /\ port' = NextBlockBase(port, keys)
    /\ UNCHANGED <<start, max_conc, keys, poolFile, poolPc, cfgVars, runVars, benchVars, shellVars>>

\* lines 90-94: the pool is written to out_file and returned
PoolWrite ==
    /\ poolPc = "loop"
    /\ Len(pool) >= EffectiveMaxConc
    /\ poolFile' = pool
    /\ poolPc' = "return"
    /\ UNCHANGED <<start, max_conc, keys, port, pool, cfgVars, runVars, benchVars, shellVars>>

InitPool ==
    /\ BenchInit /\ CfgIdle /\ RunIdle /\ ShellIdle
    /\ start \in StartPorts
    /\ max_conc \in -1..MaxConc
    /\ keys \in KeyLists(MaxKeys)
    /\ port = 0 /\ pool = <<>> /\ poolFile = "none" /\ poolPc = "entry"

NextPool == PoolEntry \/ PoolLoop \/ PoolWrite

SpecPool == InitPool /\ [][NextPool]_vars

\* --------------------------- descriptor validation (configs.py, virtualmachine.py)
\* Host port numbers a descriptor may carry: the ends of the valid range and
\* their outer neighbours.
PortValues == {0, 1, 65535, 65536}

\* Port maps are sets of <<guest port, host port>> entries.
\* additional_ports of the descriptor: nothing, or one more guest port.
AdditionalPorts == {{}} \cup {{<<"9000", p>>} : p \in PortValues}

\* cfg.extra_ports as _validate_config reads it: neither VMConfig nor
\* SandboxVMConfig declares the attribute ("missing"); a caller may have set it.
ExtraPorts ==
    {[declared |-> FALSE, values |-> {}]} \cup
    {[declared |-> TRUE, values |-> v] : v \in {{}} \cup {{p} : p \in PortValues}}

\* SandboxVMConfig.__post_init__, lines 117-131: the port map, the four
\* essential entries overriding additional_ports.
FinalPorts(c) ==
    {e \in c.additional_ports : e[1] \notin {"8006", "22", "8765", "8888"}} \cup
    {<<"8006", c.host_vnc_port>>, <<"22", c.host_ssh_port>>,
     <<"8765", c.host_sandbox_fastapi_server_port>>,
     <<"8888", c.host_sandbox_jupyter_kernel_port>>}

\* _validate_config, lines 112-114: the ports that are looked at.
AllPorts(c) ==
    {c.host_vnc_port, c.host_ssh_port} \cup c.extra_ports.values

\* VMConfig.__post_init__ / SandboxVMConfig.__post_init__: the descriptor is built
ConfigPostInit ==
    /\ validation = "pending"
    /\ IF cfg.base_data
       THEN /\ cfg' = [cfg EXCEPT !.ports = FinalPorts(cfg)]
            /\ validation' = "constructed"
       ELSE /\ validation' = "VMCreationError"      \* Missing base data.img
            /\ UNCHANGED cfg
    /\ UNCHANGED <<poolVars, runVars, benchVars, shellVars>>

\* _validate_config, lines 108-109
ValidateBase ==
    /\ validation = "constructed"
    /\ validation' = IF cfg.base_data THEN "base_ok" ELSE "VMCreationError"
    /\ UNCHANGED <<cfg, poolVars, runVars, benchVars, shellVars>>

\* _validate_config, lines 112-118
ValidatePorts ==
    /\ validation = "base_ok"
    /\ validation' = IF ~cfg.extra_ports.declared THEN "AttributeError"
                     ELSE IF \A q \in AllPorts(cfg) : 1 <= q /\ q <= 65535 THEN "ok"
                     ELSE "VMCreationError"   \* Invalid port
    /\ UNCHANGED <<cfg, poolVars, runVars, benchVars, shellVars>>

InitConfig ==
    /\ BenchInit /\ PoolIdle /\ RunIdle /\ ShellIdle
    /\ cfg \in [host_vnc_port : PortValues, host_ssh_port : PortValues,
                 host_sandbox_fastapi_server_port : PortValues,
                 host_sandbox_jupyter_kernel_port : PortValues,
                 additional_ports : AdditionalPorts, extra_ports : ExtraPorts,
                 base_data : BOOLEAN, ports : {{}}]
    /\ validation = "pending"

NextConfig == ConfigPostInit \/ ValidateBase \/ ValidatePorts

SpecConfig == InitConfig /\ [][NextConfig]_vars

\* ------------------------------- run_code_raise_errors (agent/executor.py)
\* The websocket is connected (self.ws is not None) throughout. Texts are lists
\* of tokens: "a" some printed text, "n" a newline, "S" the prefix
\* RESULT_PICKLE:, "v" the encoded pickle of the final answer.
MaxRuns == 2

Fragments == [prints : {<<>>, <<"a", "n">>}, final : BOOLEAN, fails : BOOLEAN]

\* lines 131-141: what the code that is sent prints when it runs to its end:
\* with return_final_answer and a final-answer expression, the fragment's own
\* output followed by the sentinel line.
WrappedPrints(rfa, frag) ==
    IF rfa /\ frag.final THEN frag.prints \o <<"S", "v", "n">> ELSE frag.prints

Message(id, t, c) == [parent |-> id, type |-> t, content |-> c]

\* Variant: every message is taken for an answer to the current request.
CorrelatesAny(parent, id) == TRUE

\* lines 158-159: parent_msg_id != msg_id -> continue
Correlates(parent, id) == parent = id

\* line 163: text.startswith("RESULT_PICKLE:")
StartsWithSentinel(text) == text # <<>> /\ text[1] = "S"

\* line 164: text[len("RESULT_PICKLE:"):].strip()
RECURSIVE Strip(_)
Strip(text) ==
    IF text = <<>> THEN <<>>
    ELSE IF text[1] = "n" THEN Strip(Tail(text))
    ELSE IF text[Len(text)] = "n" THEN Strip(SubSeq(text, 1, Len(text) - 1))
    ELSE text

\* line 165: pickle.loads(base64.b64decode(pickle_data)): the value when the data
\* is the whole encoded pickle, an exception otherwise.
Unpickle(data) == IF data = <<"v">> THEN "value" ELSE "Exception"

\* line 175: "".join(outputs)
RECURSIVE Join(_)
Join(texts) == IF texts = <<>> THEN <<>> ELSE Head(texts) \o Join(Tail(texts))

\* Variant: an error message is skipped like a message of an unknown type.
ErrorMessageSkipped == FALSE

\* lines 169-171: an error message raises AgentError
ErrorMessageRaises == TRUE

\* A caller invokes run_code_raise_errors(code, return_final_answer), lines 126-141
RunCall ==
    /\ rpc = "idle" /\ runs < MaxRuns
    /\ runs' = runs + 1
    /\ fragment' \in Fragments
    /\ return_final_answer' \in BOOLEAN
    /\ outcome' = NoOutcome
    /\ seen' = NoSeen
    /\ rpc' = "send"
    /\ UNCHANGED <<msg_id, outputs, result, waiting_for_idle, inbox, kernelq, kernel,
                   poolVars, cfgVars, benchVars, shellVars>>

\* line 143 and _send_execute_request (lines 181-212), lines 148-150
RunSend ==
    /\ rpc = "send"
    /\ msg_id' = runs                       \* uuid4: an id not used before
    /\ kernelq' = Append(kernelq,
                   [req |-> runs,
                    out |-> IF fragment.fails THEN fragment.prints
                            ELSE WrappedPrints(return_final_answer, fragment),
                    fails |-> fragment.fails, phase |-> "busy"])
    /\ outputs' = <<>> /\ result' = "None" /\ waiting_for_idle' = FALSE
    /\ rpc' = "recv"
    /\ UNCHANGED <<runs, fragment, return_final_answer, inbox, kernel, outcome, seen,
                   poolVars, cfgVars, benchVars, shellVars>>

\* lines 152-179: one turn of the read loop on the next message
RunRecv ==
    /\ rpc = "recv" /\ inbox # <<>>
    /\ inbox' = Tail(inbox)
    /\ LET msg == Head(inbox)
           raise(text) == /\ rpc' = "idle"
                          /\ outcome' = [kind |-> "raise", result |-> "None", text |-> text]
           continue == rpc' = "recv" /\ outcome' = outcome
       IN  IF ~Correlates(msg.parent, msg_id)
           THEN /\ seen' = [seen EXCEPT !.dropped = TRUE]
                /\ continue
                /\ UNCHANGED <<outputs, result, waiting_for_idle>>
           ELSE CASE msg.type = "stream" ->
                     /\ UNCHANGED seen
                     /\ IF return_final_answer /\ StartsWithSentinel(msg.content)
                        THEN LET data == Strip(Tail(msg.content))
                             IN  IF Unpickle(data) = "Exception"
                                 THEN /\ raise(<<"Exception">>)
                                      /\ UNCHANGED <<outputs, result, waiting_for_idle>>
                                 ELSE /\ result' = Unpickle(data)
                                      /\ waiting_for_idle' = TRUE
                                      /\ continue
                                      /\ UNCHANGED outputs
                        ELSE /\ outputs' = Append(outputs, msg.content)
                             /\ continue
                             /\ UNCHANGED <<result, waiting_for_idle>>
                  [] msg.type = "error" ->
                     /\ seen' = [seen EXCEPT !.error = TRUE]
                     /\ IF ErrorMessageRaises THEN raise(msg.content) ELSE continue
                     /\ UNCHANGED <<outputs, result, waiting_for_idle>>
                  [] msg.type = "status" /\ msg.content = <<"idle">> ->
                     /\ seen' = [seen EXCEPT !.idle = TRUE]
                     /\ IF ~return_final_answer \/ waiting_for_idle
                        THEN /\ rpc' = "idle"
                             /\ outcome' = [kind |-> "pair", result |-> result,
                                            text |-> Join(outputs)]
                        ELSE continue
                     /\ UNCHANGED <<outputs, result, waiting_for_idle>>
                  [] OTHER ->
                     /\ continue
                     /\ UNCHANGED <<seen, outputs, result, waiting_for_idle>>
    /\ UNCHANGED <<runs, fragment, return_final_answer, msg_id, kernelq, kernel,
                   poolVars, cfgVars, benchVars, shellVars>>

\* The kernel takes up the next execute request and reports itself busy.
KernelStart ==
    /\ kernel.phase = "idle" /\ kernelq # <<>>
    /\ kernel' = Head(kernelq)
    /\ kernelq' = Tail(kernelq)
    /\ inbox' = Append(inbox, Message(Head(kernelq).req, "status", <<"busy">>))
    /\ UNCHANGED <<rpc, runs, fragment, return_final_answer, msg_id, outputs, result,
                   waiting_for_idle, outcome, seen, poolVars, cfgVars, benchVars, shellVars>>

\* The kernel sends some of the pending printed output as one stream message:
\* any number of whole writes (print writes its text and the newline apart, so
\* the prefix and the pickle, written as one string, stay together).
KernelStream ==
    /\ kernel.phase = "busy" /\ kernel.out # <<>>
    /\ \E k \in 1..Len(kernel.out) :
          /\ kernel.out[k] # "S"
          /\ inbox' = Append(inbox, Message(kernel.req, "stream", SubSeq(kernel.out, 1, k)))
          /\ kernel' = [kernel EXCEPT !.out = SubSeq(kernel.out, k + 1, Len(kernel.out))]
    /\ UNCHANGED <<rpc, runs, fragment, return_final_answer, msg_id, outputs, result,
                   waiting_for_idle, kernelq, outcome, seen, poolVars, cfgVars, benchVars, shellVars>>

\* The code raised: the kernel sends an error message with the traceback.
KernelError ==
    /\ kernel.phase = "busy" /\ kernel.out = <<>> /\ kernel.fails
    /\ inbox' = Append(inbox, Message(kernel.req, "error", <<"traceback">>))
    /\ kernel' = [kernel EXCEPT !.fails = FALSE]
    /\ UNCHANGED <<rpc, runs, fragment, return_final_answer, msg_id, outputs, result,
                   waiting_for_idle, kernelq, outcome, seen, poolVars, cfgVars, benchVars, shellVars>>

\* The request is done: the kernel reports itself idle.
KernelIdle ==
    /\ kernel.phase = "busy" /\ kernel.out = <<>> /\ ~kernel.fails
    /\ inbox' = Append(inbox, Message(kernel.req, "status", <<"idle">>))
    /\ kernel' = [kernel EXCEPT !.phase = "idle"]
    /\ UNCHANGED <<rpc, runs, fragment, return_final_answer, msg_id, outputs, result,
                   waiting_for_idle, kernelq, outcome, seen, poolVars, cfgVars, benchVars, shellVars>>

InitRun ==
    /\ BenchInit /\ PoolIdle /\ CfgIdle /\ ShellIdle
    /\ rpc = "idle" /\ runs = 0 /\ fragment = NoFragment /\ return_final_answer = FALSE
    /\ msg_id = 0 /\ outputs = <<>> /\ result = "None" /\ waiting_for_idle = FALSE
    /\ inbox = <<>> /\ kernelq = <<>> /\ kernel = NoKernelRun
    /\ outcome = NoOutcome /\ seen = NoSeen

NextRun ==
    \/ RunCall \/ RunSend \/ RunRecv
    \/ KernelStart \/ KernelStream \/ KernelError \/ KernelIdle

SpecRun == InitRun /\ [][NextRun]_vars

\* ----------------------------------- SSHClient.exec_command (sandbox/ssh.py)
\* Texts are lists of tokens. "o" is one byte of command output, "O" a block of
\* BlockLen bytes written at once; "cut" stands for the leading part of a token
\* that a slice has cut through. Command lines are lists of words.
MaxWrites == 2         \* writes the remote command makes before it exits or hangs
BlockLen == 300        \* bytes of the block "O"
PartialLen == 200      \* out_final[:200], err_final[:200]
RecvSize == 4096       \* channel.recv(4096)

Commands == {<<"cmd">>, <<"sudo", "cmd">>, <<"sudo", "-S", "cmd">>}

\* What the session prints when sudo wants a password: nothing (no password
\* needed), sudo's default prompt, the same in capitals, a configured prompt
\* without the "[sudo] " part.
Prompts == {<<>>, <<"[sudo] ", "password for", "user:">>,
            <<"[SUDO] ", "PASSWORD FOR", "USER:">>, <<"Password for", "user:">>}

TokLen(t) ==
    CASE t \in {"[sudo] ", "[SUDO] "} -> 7
      [] t \in {"password for", "PASSWORD FOR", "Password for"} -> 12
      [] t \in {"user:", "USER:"} -> 5
      [] t = "O" -> BlockLen
      [] OTHER -> 1

\* str.lower(), token by token
LowerTok(t) ==
    CASE t = "[SUDO] " -> "[sudo] "
      [] t \in {"PASSWORD FOR", "Password for"} -> "password for"
      [] t = "USER:" -> "user:"
      [] OTHER -> t

Lower(text) == [i \in DOMAIN text |-> LowerTok(text[i])]

\* text[:n]
RECURSIVE Slice(_, _)
Slice(text, n) ==
    IF text = <<>> \/ n <= 0 THEN <<>>
    ELSE IF TokLen(Head(text)) <= n
         THEN <<Head(text)>> \o Slice(Tail(text), n - TokLen(Head(text)))
         ELSE <<"cut">>

\* Number of leading tokens of the unread data that one recv(n) returns.
RECURSIVE Fits(_, _)
Fits(text, n) ==
    IF text = <<>> \/ TokLen(Head(text)) > n THEN 0
    ELSE 1 + Fits(Tail(text), n - TokLen(Head(text)))

Recv(text) == SubSeq(text, 1, Fits(text, RecvSize))
Unread(text) == SubSeq(text, Fits(text, RecvSize) + 1, Len(text))

\* line 210: "[sudo] password for" in read_buffer.lower()
MarkerInBuffer(buffer) ==
    \E i \in 1..(Len(buffer) - 1) : buffer[i] = "[sudo] " /\ buffer[i + 1] = "password for"

PromptDetected(buffer) == MarkerInBuffer(Lower(buffer))

\* line 161 / 172: cmd_to_execute.strip().startswith("sudo")
StartsWithSudo(c) == c # <<>> /\ c[1] = "sudo"

\* line 172: "sudo -S" in cmd_to_execute
HasSudoS(c) == \E i \in 1..(Len(c) - 1) : c[i] = "sudo" /\ c[i + 1] = "-S"

\* lines 135-147: one valid variable, quoted
EnvPrefix(c) == IF c.env = "prefix" THEN <<"K=v">> ELSE <<>>

\* lines 159-162
CmdToExecute(c) ==
    LET plain == EnvPrefix(c) \o c.cmd
    IN  IF c.as_root /\ ~StartsWithSudo(plain) THEN <<"sudo", "-S">> \o plain ELSE plain

\* line 172
NeedsPty(c) ==
    c.as_root \/ HasSudoS(CmdToExecute(c)) \/ StartsWithSudo(CmdToExecute(c))

\* line 197: sudo_password if sudo_password is not None else self.cfg.password
\* line 215: the flag set behind a successful sendall
PasswordSentNot == FALSE
PasswordSent == TRUE

PasswordToSend(c) == IF c.sudo_password # "None" THEN c.sudo_password ELSE c.password

\* Variant: without a password the call keeps reading until the timeout.
NoPasswordWaits == FALSE

\* lines 222-226: without a password the call closes the channel and raises
NoPasswordRaises == TRUE

\* errors.py lines 23-35: the fields of RemoteCommandError
RemoteCommandError(command, status, stdout, stderr) ==
    [kind |-> "RemoteCommandError", command |-> command, status |-> status,
     stdout |-> stdout, stderr |-> stderr]

\* lines 238-242: the text put in the stderr field of the timeout error
TimeoutMessage(out_final, err_final) ==
    <<"Command timed out", "Partial stdout:">> \o Slice(out_final, PartialLen)
        \o <<"Partial stderr:">> \o Slice(err_final, PartialLen)

\* line 253: if not block: return None
ReturnsNone(c, status) == ~c.block

\* lines 134-198: the command line is built, the channel opened, the command
\* started; or the transport is not active (lines 165-169)
SshEntry ==
    /\ sshPc = "entry"
    /\ \/ /\ loc' = [NoLocals EXCEPT !.cmd_to_execute = CmdToExecute(call),
                                      !.needs_pty = NeedsPty(call)]
          /\ remote' = [NoRemote EXCEPT !.phase = "start"]
          /\ sshPc' = "while"
          /\ UNCHANGED ret
       \/ /\ ret' = [NoReturn EXCEPT !.kind = "SSHError"]
          /\ sshPc' = "done"
          /\ UNCHANGED <<loc, remote>>
    /\ UNCHANGED <<call, channel, elapsed, poolVars, cfgVars, runVars, xferVars, waitVars, sftpVars, benchVars>>

\* line 200: the loop condition, and line 236 behind the loop
SshWhile ==
    /\ sshPc = "while"
    /\ sshPc' = IF ~loc.exit_status_ready /\ ~elapsed THEN "recv"
                ELSE IF ~loc.exit_status_ready THEN "timeout" ELSE "drain"
    /\ UNCHANGED <<call, channel, remote, loc, elapsed, ret,
                   poolVars, cfgVars, runVars, xferVars, waitVars, sftpVars, benchVars>>

\* lines 201-208
SshRecv ==
    /\ sshPc = "recv"
    /\ LET out == Recv(channel.out)
           err == Recv(channel.err)
       IN  /\ loc' = [loc EXCEPT
                  !.stdout_data_parts = IF channel.out # <<>> THEN Append(@, out) ELSE @,
                  !.stderr_data_parts = IF channel.err # <<>> THEN Append(@, err) ELSE @,
                  !.read_buffer = @ \o out \o err]
           /\ channel' = [channel EXCEPT !.out = Unread(@), !.err = Unread(@)]
    /\ sshPc' = "prompt"
    /\ UNCHANGED <<call, remote, elapsed, ret, poolVars, cfgVars, runVars, xferVars, waitVars, sftpVars, benchVars>>

\* lines 210-226
SshPrompt ==
    /\ sshPc = "prompt"
    /\ IF loc.needs_pty /\ ~loc.password_sent /\ PromptDetected(loc.read_buffer)
       THEN IF PasswordToSend(call) # ""
            THEN /\ \/ /\ channel' = [channel EXCEPT !.stdin = Append(@, PasswordToSend(call))]
                       /\ loc' = [loc EXCEPT !.password_sent = PasswordSent, !.read_buffer = <<>>]
                    \/ UNCHANGED <<channel, loc>>     \* sendall raised: logged, nothing marked
                 /\ sshPc' = "poll"
                 /\ UNCHANGED ret
            ELSE IF NoPasswordRaises
                 THEN /\ channel' = [channel EXCEPT !.closed = TRUE]
                      /\ ret' = RemoteCommandError(call.cmd, -1, <<>>,
                                                   <<"no password provided">>)
                      /\ sshPc' = "done"
                      /\ UNCHANGED loc
                 ELSE /\ sshPc' = "poll"
                      /\ UNCHANGED <<channel, loc, ret>>
       ELSE /\ sshPc' = "poll"
            /\ UNCHANGED <<channel, loc, ret>>
    /\ UNCHANGED <<call, remote, elapsed, poolVars, cfgVars, runVars, xferVars, waitVars, sftpVars, benchVars>>

\* lines 228-231
SshPoll ==
    /\ sshPc = "poll"
    /\ loc' = [loc EXCEPT !.exit_status_ready = @ \/ channel.exit # -1]
    /\ sshPc' = "while"
    /\ UNCHANGED <<call, channel, remote, elapsed, ret, poolVars, cfgVars, runVars, xferVars, waitVars, sftpVars, benchVars>>

\* lines 233-243
SshTimeout ==
    /\ sshPc = "timeout"
    /\ channel' = [channel EXCEPT !.closed = TRUE]
    /\ ret' = RemoteCommandError(call.cmd, -1, Join(loc.stdout_data_parts),
                  TimeoutMessage(Join(loc.stdout_data_parts), Join(loc.stderr_data_parts)))
    /\ sshPc' = "done"
    /\ UNCHANGED <<call, remote, loc, elapsed, poolVars, cfgVars, runVars, xferVars, waitVars, sftpVars, benchVars>>

\* lines 233-234 and 245-279
SshDrain ==
    /\ sshPc = "drain"
    /\ LET out_final == Join(loc.stdout_data_parts) \o channel.out
           err_final == Join(loc.stderr_data_parts) \o channel.err
           status == channel.exit
       IN  /\ channel' = [channel EXCEPT !.out = <<>>, !.err = <<>>, !.closed = TRUE]
           /\ ret' = IF ReturnsNone(call, status) THEN [NoReturn EXCEPT !.kind = "None"]
                     ELSE IF status # 0
                          THEN RemoteCommandError(call.cmd, status, out_final, err_final)
                          ELSE [kind |-> "dict", command |-> call.cmd, status |-> status,
                                stdout |-> out_final, stderr |-> err_final]
    /\ sshPc' = "done"
    /\ UNCHANGED <<call, remote, loc, elapsed, poolVars, cfgVars, runVars, xferVars, waitVars, sftpVars, benchVars>>

\* The remote side of the channel. A pseudo-terminal carries both streams of the
\* command on the channel's stdout.
Elevated(c) == \E i \in DOMAIN c : c[i] = "sudo"

Written(ch, stream, text) ==
    IF loc.needs_pty \/ stream = "out" THEN [ch EXCEPT !.out = @ \o text]
    ELSE [ch EXCEPT !.err = @ \o text]

Running == sshPc \in {"while", "recv", "prompt", "poll"} /\ ~channel.closed

\* sudo asks for the password when the session wants one; without a terminal
\* and without -S it gives up.
RemoteStart ==
    /\ Running /\ remote.phase = "start"
    /\ IF Elevated(loc.cmd_to_execute) /\ call.prompt # <<>>
       THEN IF loc.needs_pty \/ HasSudoS(loc.cmd_to_execute)
            THEN /\ channel' = Written(channel, "err", call.prompt)
                 /\ remote' = [remote EXCEPT !.phase = "asking"]
            ELSE /\ channel' = [Written(channel, "err", <<"o">>) EXCEPT !.exit = 1]
                 /\ remote' = [remote EXCEPT !.phase = "exited", !.err = <<"o">>]
       ELSE /\ remote' = [remote EXCEPT !.phase = "running"]
            /\ UNCHANGED channel
    /\ UNCHANGED <<sshPc, call, loc, elapsed, ret, poolVars, cfgVars, runVars, xferVars, waitVars, sftpVars, benchVars>>

\* sudo reads the password that was written to the channel
RemotePassword ==
    /\ Running /\ remote.phase = "asking" /\ channel.stdin # <<>>
    /\ \/ /\ channel' = [channel EXCEPT !.stdin = Tail(@)]
          /\ remote' = [remote EXCEPT !.phase = "running"]
       \/ /\ remote.writes < MaxWrites         \* rejected: the prompt is printed again
          /\ channel' = [Written(channel, "err", call.prompt) EXCEPT !.stdin = Tail(@)]
          /\ remote' = [remote EXCEPT !.writes = @ + 1]
    /\ UNCHANGED <<sshPc, call, loc, elapsed, ret, poolVars, cfgVars, runVars, xferVars, waitVars, sftpVars, benchVars>>

\* the command writes to one of its streams
RemoteWrite ==
    /\ Running /\ remote.phase = "running" /\ remote.writes < MaxWrites
    /\ \E t \in {"o", "O"}, stream \in {"out", "err"} :
          /\ channel' = Written(channel, stream, <<t>>)
          /\ remote' = [remote EXCEPT !.writes = @ + 1,
                                       !.out = IF stream = "out" THEN Append(@, t) ELSE @,
                                       !.err = IF stream = "err" THEN Append(@, t) ELSE @]
    /\ UNCHANGED <<sshPc, call, loc, elapsed, ret, poolVars, cfgVars, runVars, xferVars, waitVars, sftpVars, benchVars>>

\* the command ends
RemoteExit ==
    /\ Running /\ remote.phase = "running"
    /\ \E status \in {0, 1} : channel' = [channel EXCEPT !.exit = status]
    /\ remote' = [remote EXCEPT !.phase = "exited"]
    /\ UNCHANGED <<sshPc, call, loc, elapsed, ret, poolVars, cfgVars, runVars, xferVars, waitVars, sftpVars, benchVars>>

\* cfg.command_timeout seconds have passed since start_time; the clock is read
\* at the head of the loop only (line 200)
Elapse ==
    /\ sshPc = "while" /\ ~channel.closed /\ ~elapsed
    /\ elapsed' = TRUE
    /\ UNCHANGED <<sshPc, call, channel, remote, loc, ret, poolVars, cfgVars, runVars, xferVars, waitVars, sftpVars, benchVars>>

Calls ==
    [cmd : Commands, env : {"none", "prefix", "channel"}, as_root : BOOLEAN,
     block : BOOLEAN, sudo_password : {"None", "", "pw"}, password : {"", "pw"},
     prompt : Prompts]

InitSsh ==
    /\ BenchInit /\ PoolIdle /\ CfgIdle /\ RunIdle /\ XferIdle /\ WaitIdle /\ SftpIdle
    /\ sshPc = "entry" /\ call \in Calls /\ channel = NoChannel /\ remote = NoRemote
    /\ loc = NoLocals /\ elapsed = FALSE /\ ret = NoReturn

NextSsh ==
    \/ SshEntry \/ SshWhile \/ SshRecv \/ SshPrompt \/ SshPoll \/ SshTimeout \/ SshDrain
    \/ RemoteStart \/ RemotePassword \/ RemoteWrite \/ RemoteExit \/ Elapse

SpecSsh == InitSsh /\ [][NextSsh]_vars

\* ------------------------------ file transfer of SSHClient (sandbox/ssh.py)
\* A file system is a set of nodes [path, kind, data]; paths are lists of names.
\* The local tree to upload lies under "src", the remote location is "rem",
\* the local destination of downloads is "dst".
MaxNodes == 3          \* files and directories in the local tree
Names == {"a", "b"}
Contents == {"x", "y"}
Src == <<"src">>
Rem == <<"rem">>
Dst == <<"dst">>

Node(p, k, d) == [path |-> p, kind |-> k, data |-> d]

\* posixpath.dirname / Path.parent
Parent(p) == SubSeq(p, 1, Len(p) - 1)

\* sftp.stat / Path.exists, is_file, is_dir
Exists(fs, p) == \E n \in fs : n.path = p
IsFile(fs, p) == \E n \in fs : n.path = p /\ n.kind = "file"
IsDir(fs, p) == \E n \in fs : n.path = p /\ n.kind = "dir"

\* os.listdir / sftp.listdir_attr: the names in a directory
Listdir(fs, dir) ==
    {n.path[Len(n.path)] : n \in {m \in fs : Len(m.path) = Len(dir) + 1 /\ Parent(m.path) = dir}}

DataOf(fs, p) == (CHOOSE n \in fs : n.path = p).data

\* sftp.put / sftp.get onto a path: the file there is replaced
WriteFile(fs, p, d) == {n \in fs : n.path # p} \cup {Node(p, "file", d)}

\* _mkdir_p (lines 42-52), and Path.mkdir(parents=True, exist_ok=True); in the
\* trees used here no proper ancestor of a created directory is a file
RECURSIVE MkdirP(_, _)
MkdirP(fs, dir) ==
    IF dir = <<>> \/ Exists(fs, dir) THEN fs
    ELSE MkdirP(fs, Parent(dir)) \cup {Node(dir, "dir", "")}

\* The overwrite argument as the caller wrote it: left out, True or False.
OverwriteArgs == {"default", "True", "False"}

\* lines 287, 363, 425: overwrite: bool = True, overwrite_files: bool = True
Overwrite(arg) == IF arg = "default" THEN TRUE ELSE arg = "True"

Failed(fs) == [fs |-> fs, err |-> "VMOperationError"]
Done(fs) == [fs |-> fs, err |-> "none"]

\* put_file, lines 289-321: the remote file system afterwards and the error raised
PutFile(lf, rf, l, r, mkdir_parents, overwrite) ==
    IF ~IsFile(lf, l) THEN Failed(rf)
    ELSE IF ~overwrite /\ Exists(rf, r) THEN Failed(rf)
    ELSE LET made == IF mkdir_parents THEN MkdirP(rf, Parent(r)) ELSE rf
         IN  IF IsDir(made, Parent(r)) /\ ~IsDir(made, r)
             THEN Done(WriteFile(made, r, DataOf(lf, l)))
             ELSE Failed(made)

\* download_file, lines 365-417: the local file system afterwards and the error raised
DownloadFile(rf, lf, r, l, mkdir_parents, overwrite) ==
    IF ~IsFile(rf, r) THEN Failed(lf)
    ELSE IF IsDir(lf, l) THEN Failed(lf)
    ELSE IF IsFile(lf, l) /\ ~overwrite THEN Failed(lf)
    ELSE LET made == IF mkdir_parents THEN MkdirP(lf, Parent(l)) ELSE lf
         IN  IF IsDir(made, Parent(l))
             THEN Done(WriteFile(made, l, DataOf(rf, r)))
             ELSE Failed(made)

\* Variant: no name is excluded.
ExcludedNever(item, exclude) == FALSE

\* lines 341, 448: exclude and item in exclude
Excluded(item, exclude) == item \in exclude

XCall(op, from, to, exclude, overwrite, res) ==
    [op |-> op, from |-> from, to |-> to, exclude |-> exclude, overwrite |-> overwrite,
     result |-> res, puts |-> [once |-> {}, again |-> {}]]

\* history: one more put_file of the running put_directory onto remote path r
Uploaded(r) ==
    [xcalls EXCEPT ![Len(xcalls)].puts =
        IF r \in @.once THEN [@ EXCEPT !.again = @ \cup {r}] ELSE [@ EXCEPT !.once = @ \cup {r}]]

Result(err) == IF err = "none" THEN "ok" ELSE err

\* the running call ends
Ended(res) == [xcalls EXCEPT ![Len(xcalls)].result = res]

XFrame(from, to, pending) == [from |-> from, to |-> to, pending |-> pending]

\* line 340: the for loop moves on to the items it has not visited
RemainingAll(pending, item) == pending
Remaining(pending, item) == pending \ {item}

\* a caller uploads one file
XPutFile ==
    /\ xferPc = "up"
    /\ \E n, m \in Names, ow \in OverwriteArgs :
          LET res == PutFile(lfs, rfs, Src \o <<n>>, Rem \o <<m>>, TRUE, Overwrite(ow))
          IN  /\ rfs' = res.fs
              /\ xcalls' = Append(xcalls, XCall("put_file", Src \o <<n>>, Rem \o <<m>>, {},
                                                ow, Result(res.err)))
    /\ xferPc' = "down"
    /\ UNCHANGED <<scene, lfs, walk, sshVars, waitVars, sftpVars, poolVars, cfgVars, runVars, benchVars>>

\* put_directory, lines 330-337 and the call of line 354
XPutDirectory ==
    /\ xferPc = "up"
    /\ \E exclude \in SUBSET Names :
          IF ~IsDir(lfs, Src)
          THEN /\ xcalls' = Append(xcalls, XCall("put_directory", Src, Rem, exclude,
                                                 "default", "VMOperationError"))
               /\ xferPc' = "down"
               /\ UNCHANGED <<rfs, walk>>
          ELSE /\ xcalls' = Append(xcalls, XCall("put_directory", Src, Rem, exclude,
                                                 "default", "running"))
               /\ rfs' = MkdirP(rfs, Rem)
               /\ walk' = <<XFrame(Src, Rem, Listdir(lfs, Src))>>
               /\ xferPc' = "putdir"
    /\ UNCHANGED <<scene, lfs, sshVars, waitVars, sftpVars, poolVars, cfgVars, runVars, benchVars>>

\* _upload_recursive, lines 339-352: one item of the listing, or the return
\* from a directory whose items are all done
XUploadStep ==
    /\ xferPc = "putdir"
    /\ LET f == walk[Len(walk)]
           rest == SubSeq(walk, 1, Len(walk) - 1)
           c == xcalls[Len(xcalls)]
       IN  IF f.pending = {}
           THEN /\ walk' = rest
                /\ IF rest = <<>>
                   THEN xferPc' = "down" /\ xcalls' = Ended("ok")
                   ELSE UNCHANGED <<xferPc, xcalls>>
                /\ UNCHANGED rfs
           ELSE \E item \in f.pending :
                  LET left == [f EXCEPT !.pending = Remaining(@, item)]
                      l == f.from \o <<item>>
                      r == f.to \o <<item>>
                      res == PutFile(lfs, rfs, l, r, FALSE, Overwrite("default"))
                  IN  IF Excluded(item, c.exclude)
                      THEN /\ walk' = Append(rest, left)
                           /\ UNCHANGED <<rfs, xferPc, xcalls>>
                      ELSE IF IsFile(lfs, l)
                      THEN /\ rfs' = res.fs
                           /\ IF res.err = "none"
                              THEN /\ walk' = Append(rest, left)
                                   /\ xcalls' = Uploaded(r)
                                   /\ UNCHANGED xferPc
                              ELSE /\ walk' = <<>>
                                   /\ xferPc' = "down"
                                   /\ xcalls' = Ended(res.err)
                      ELSE /\ rfs' = MkdirP(rfs, r)
                           /\ walk' = Append(Append(rest, left), XFrame(l, r, Listdir(lfs, l)))
                           /\ UNCHANGED <<xferPc, xcalls>>
    /\ UNCHANGED <<scene, lfs, sshVars, waitVars, sftpVars, poolVars, cfgVars, runVars, benchVars>>

\* a caller downloads one file
XDownloadFile ==
    /\ xferPc = "down"
    /\ \E n, m \in Names, ow \in OverwriteArgs :
          LET res == DownloadFile(rfs, lfs, Rem \o <<n>>, Dst \o <<m>>, TRUE, Overwrite(ow))
          IN  /\ lfs' = res.fs
              /\ xcalls' = Append(xcalls, XCall("download_file", Rem \o <<n>>, Dst \o <<m>>,
                                                {}, ow, Result(res.err)))
    /\ xferPc' = "end"
    /\ UNCHANGED <<scene, rfs, walk, sshVars, waitVars, sftpVars, poolVars, cfgVars, runVars, benchVars>>

\* download_directory, lines 427-442 and the call of line 483
XDownloadDirectory ==
    /\ xferPc = "down"
    /\ \E exclude \in SUBSET Names, ow \in OverwriteArgs :
          IF ~IsDir(rfs, Rem)
          THEN /\ xcalls' = Append(xcalls, XCall("download_directory", Rem, Dst, exclude,
                                                 ow, "VMOperationError"))
               /\ xferPc' = "end"
               /\ UNCHANGED <<lfs, walk>>
          ELSE /\ xcalls' = Append(xcalls, XCall("download_directory", Rem, Dst, exclude,
                                                 ow, "running"))
               /\ lfs' = MkdirP(lfs, Dst)
               /\ walk' = <<XFrame(Rem, Dst, Listdir(rfs, Rem))>>
               /\ xferPc' = "getdir"
    /\ UNCHANGED <<scene, rfs, sshVars, waitVars, sftpVars, poolVars, cfgVars, runVars, benchVars>>

\* _download_recursive, lines 444-480: one item of the listing, or the return
\* from a directory whose items are all done
XDownloadStep ==
    /\ xferPc = "getdir"
    /\ LET f == walk[Len(walk)]
           rest == SubSeq(walk, 1, Len(walk) - 1)
           c == xcalls[Len(xcalls)]
       IN  IF f.pending = {}
           THEN /\ walk' = rest
                /\ IF rest = <<>>
                   THEN xferPc' = "end" /\ xcalls' = Ended("ok")
                   ELSE UNCHANGED <<xferPc, xcalls>>
                /\ UNCHANGED lfs
           ELSE \E item \in f.pending :
                  LET left == [f EXCEPT !.pending = @ \ {item}]
                      r == f.from \o <<item>>
                      l == f.to \o <<item>>
                      res == DownloadFile(rfs, lfs, r, l, FALSE, Overwrite(c.overwrite))
                  IN  IF Excluded(item, c.exclude)
                      THEN /\ walk' = Append(rest, left)
                           /\ UNCHANGED <<lfs, xferPc, xcalls>>
                      ELSE IF IsDir(rfs, r) /\ ~IsFile(lfs, l)
                      THEN /\ lfs' = MkdirP(lfs, l)
                           /\ walk' = Append(Append(rest, left), XFrame(r, l, Listdir(rfs, r)))
                           /\ UNCHANGED <<xferPc, xcalls>>
                      ELSE IF IsDir(rfs, r)
                      THEN \* mkdir on a path that is a file: FileExistsError, line 474
                           /\ walk' = <<>>
                           /\ xferPc' = "end"
                           /\ xcalls' = Ended("VMOperationError")
                           /\ UNCHANGED lfs
                      ELSE /\ lfs' = res.fs
                           /\ IF res.err = "none"
                              THEN /\ walk' = Append(rest, left)
                                   /\ UNCHANGED <<xferPc, xcalls>>
                              ELSE /\ walk' = <<>>
                                   /\ xferPc' = "end"
                                   /\ xcalls' = Ended(res.err)
    /\ UNCHANGED <<scene, rfs, sshVars, waitVars, sftpVars, poolVars, cfgVars, runVars, benchVars>>

\* Local trees of regular files and directories, two levels deep.
TreeNodes ==
    {Node(Src \o p, "file", d) :
        p \in {<<n>> : n \in Names} \cup {<<n, m>> : n, m \in Names}, d \in Contents}
    \cup {Node(Src \o p, "dir", "") :
        p \in {<<n>> : n \in Names} \cup {<<n, m>> : n, m \in Names}}

Trees ==
    {t \in SUBSET TreeNodes :
        /\ Cardinality(t) <= MaxNodes
        /\ \A n, m \in t : n.path = m.path => n = m
        /\ \A n \in t : Len(n.path) = 3 => IsDir(t, Parent(n.path))}

\* What is at a location before the calls: nothing, or a directory with a file.
Used(root) == {Node(root, "dir", ""), Node(root \o <<"a">>, "file", "y")}

Scenes == [remote : {"empty", "used"}, dst : {"fresh", "used"}]

InitXfer ==
    /\ BenchInit /\ PoolIdle /\ CfgIdle /\ RunIdle /\ SshIdle /\ WaitIdle /\ SftpIdle
    /\ xferPc = "up" /\ xcalls = <<>> /\ walk = <<>>
    /\ scene \in Scenes
    /\ \E t \in Trees :
          lfs = {Node(Src, "dir", "")} \cup t
                  \cup (IF scene.dst = "used" THEN Used(Dst) ELSE {})
    /\ rfs = IF scene.remote = "used" THEN Used(Rem) ELSE {}

NextXfer ==
    \/ XPutFile \/ XPutDirectory \/ XUploadStep
    \/ XDownloadFile \/ XDownloadDirectory \/ XDownloadStep

SpecXfer == InitXfer /\ [][NextXfer]_vars

\* ------- the end of VMManager.start and _wait_for_ssh_ready (virtualmachine.py)
\* Time is counted in sleep intervals: the window of timeout=300 s holds Window
\* sleeps of interval=5 s. Probe outputs are lists of tokens, "n" a newline.
Window == 3

ProbeOutputs ==
    {<<"ready", "n">>, <<"n", "ready">>, <<"ready">>, <<>>, <<"n">>, <<"x", "n">>,
     <<"ready", "x">>, <<"ready", "n", "ready">>}

\* What exec_command("echo ready") gives: the dict of a zero exit status, or an
\* error raised (a failed command or a timeout with its partial output, no
\* connection).
Probes ==
    [kind : {"dict"}, stdout : ProbeOutputs]
    \cup [kind : {"RemoteCommandError"}, stdout : {<<>>, <<"ready", "n">>}]
    \cup [kind : {"SSHError"}, stdout : {<<>>}]

\* Variant: any probe that returns counts as ready.
IsReadyAnyOutput(r) == r.kind = "dict"

\* line 159: result and result["stdout"].strip() == "ready"
IsReady(r) == r.kind = "dict" /\ Strip(r.stdout) = <<"ready">>

\* Variant: the sleep takes no time.
SleptNot(t) == t

\* line 164: time.sleep(interval)
Slept(t) == IF t < Window THEN t + 1 ELSE t

\* a history counter, kept at "more than Window" beyond the window
Counted(n) == IF n <= Window THEN n + 1 ELSE n

notWait == <<sshVars, xferVars, sftpVars, poolVars, cfgVars, runVars, benchVars>>

\* start, lines 95-96; _wait_for_ssh_ready, lines 150-154
WStart ==
    /\ wpc = "start"
    /\ IF wait_for_ssh
       THEN /\ wpc' = "loop"
            /\ now' = 0
            /\ waited' = [waited EXCEPT !.entries = @ + 1]
            /\ UNCHANGED wout
       ELSE /\ wpc' = "done"
            /\ wout' = [wout EXCEPT !.start = "returned"]
            /\ UNCHANGED <<now, waited>>
    /\ UNCHANGED <<wait_for_ssh, probe, notWait>>

\* lines 155 and 165: the loop condition, and the error behind the loop, which
\* leaves start as well
WLoop ==
    /\ wpc = "loop"
    /\ IF now < Window
       THEN wpc' = "probe" /\ UNCHANGED wout
       ELSE wpc' = "done" /\ wout' = [wait |-> "TimeoutError", start |-> "TimeoutError"]
    /\ UNCHANGED <<wait_for_ssh, now, probe, waited, notWait>>

\* line 158: the probe, which takes some time
WProbe ==
    /\ wpc = "probe"
    /\ probe' \in Probes
    /\ now' \in now..Window
    /\ waited' = [waited EXCEPT !.probes = Counted(@)]
    /\ wpc' = "check"
    /\ UNCHANGED <<wait_for_ssh, wout, notWait>>

\* lines 159-163
WCheck ==
    /\ wpc = "check"
    /\ IF IsReady(probe)
       THEN wpc' = "connect" /\ wout' = [wout EXCEPT !.wait = "returned"]
       ELSE wpc' = "sleep" /\ UNCHANGED wout
    /\ UNCHANGED <<wait_for_ssh, now, probe, waited, notWait>>

\* line 164
WSleep ==
    /\ wpc = "sleep"
    /\ now' = Slept(now)
    /\ wpc' = "loop"
    /\ UNCHANGED <<wait_for_ssh, probe, waited, wout, notWait>>

\* start, lines 97-99: ssh.connect() returns the session or raises SSHError
WConnect ==
    /\ wpc = "connect"
    /\ \E r \in {"returned", "SSHError"} : wout' = [wout EXCEPT !.start = r]
    /\ wpc' = "done"
    /\ UNCHANGED <<wait_for_ssh, now, probe, waited, notWait>>

InitWait ==
    /\ BenchInit /\ PoolIdle /\ CfgIdle /\ RunIdle /\ SshIdle /\ XferIdle /\ SftpIdle
    /\ wpc = "start" /\ wait_for_ssh \in BOOLEAN /\ now = 0 /\ probe = NoProbe
    /\ waited = NoWaits /\ wout = NoWaitOutcome

NextWait == WStart \/ WLoop \/ WProbe \/ WCheck \/ WSleep \/ WConnect

SpecWait == InitWait /\ [][NextWait]_vars

\* Every statement of start and of the loop is executed in the end: the calls
\* it makes return or raise (the probe within the timeouts of exec_command).
SpecWaitLive == SpecWait /\ WF_vars(NextWait)

\* ------------------------------------------------------------------
\* SSHClient.connect, close and _get_sftp (sandbox/ssh.py, lines 94-122).
\* Sessions are numbered in the order _establish opens them; a session's
\* transport is active from then on until it drops or the client is closed.

MaxSessions == 6

notSftp == <<sshVars, xferVars, waitVars, poolVars, cfgVars, runVars, benchVars>>

\* lines 96-98: the cached client is returned as long as its transport is active
Cached == client # 0 /\ client \in active

\* line 121: the test that sends _get_sftp to open a new sub-channel
NeedsSftp(held, cli) == held = 0 \/ ~Cached

\* connect(), lines 94-106; exec_command reaches it at line 165
SftpConnect ==
    /\ IF Cached
       THEN /\ handed' = [op |-> "connect", sftp |-> sftp, client |-> client]
            /\ UNCHANGED <<client, sessions, active>>
       ELSE /\ sessions < MaxSessions
            /\ \/ /\ sessions' = sessions + 1
                  /\ client' = sessions'
                  /\ active' = active \cup {sessions'}
                  /\ handed' = [op |-> "connect", sftp |-> sftp, client |-> client']
               \/ /\ handed' = [op |-> "SSHError", sftp |-> sftp, client |-> client]
                  /\ UNCHANGED <<client, sessions, active>>
    /\ UNCHANGED <<sftp, notSftp>>

\* close(), lines 108-115
SftpClose ==
    /\ sftp' = 0
    /\ client' = 0
    /\ active' = active \ {client}
    /\ handed' = [op |-> "close", sftp |-> 0, client |-> 0]
    /\ UNCHANGED <<sessions, notSftp>>

\* _get_sftp(), lines 117-122, with the connect() it calls
SftpGet ==
    /\ IF NeedsSftp(sftp, client)
       THEN IF Cached
            THEN /\ \/ sftp' = client /\ handed' = [op |-> "_get_sftp", sftp |-> client, client |-> client]
                    \/ handed' = [op |-> "Exception", sftp |-> sftp, client |-> client] /\ UNCHANGED sftp
                 /\ UNCHANGED <<client, sessions, active>>
            ELSE /\ sessions < MaxSessions
                 /\ \/ /\ sessions' = sessions + 1
                       /\ client' = sessions'
                       /\ active' = active \cup {sessions'}
                       /\ \/ sftp' = client' /\ handed' = [op |-> "_get_sftp", sftp |-> client', client |-> client']
                          \/ handed' = [op |-> "Exception", sftp |-> sftp, client |-> client'] /\ UNCHANGED sftp
                    \/ /\ handed' = [op |-> "SSHError", sftp |-> sftp, client |-> client]
                       /\ UNCHANGED <<client, sftp, sessions, active>>
       ELSE /\ handed' = [op |-> "_get_sftp", sftp |-> sftp, client |-> client]
            /\ UNCHANGED <<client, sftp, sessions, active>>
    /\ UNCHANGED notSftp

\* the transport of a session drops (keepalive lost, sandbox restarted)
TransportDrop ==
    /\ \E s \in active : active' = active \ {s}
    /\ UNCHANGED <<client, sftp, sessions, handed, notSftp>>

InitSftp ==
    /\ BenchInit /\ PoolIdle /\ CfgIdle /\ RunIdle /\ SshIdle /\ XferIdle /\ WaitIdle
    /\ SftpIdle

NextSftp == SftpConnect \/ SftpClose \/ SftpGet \/ TransportDrop

SpecSftp == InitSftp /\ [][NextSftp]_vars

\* ================================================================== claims
RunnerCatchLabels == {"single.exit", "single.timeout", "single.error"}
WorkerEnded == stack # <<>> /\ Top.pc \in RunnerCatchLabels
JobEnded == At("single.return")

\* C1: every path through the job runner has written the job's summary.json
\* by the time the runner returns to the loop for the next job.
C1_SummaryPersisted == JobEnded => saves >= 1

\* C2: if the alarm fired while a step of the job body (setup, agent run,
\* evaluation) was executing, the summary on disk at the end of the job has
\* state TIMED_OUT and score 0.
C2_TimeoutRecorded ==
    (JobEnded /\ firedAt = "body") => (summary.state = "TIMED_OUT" /\ summary.score = 0)

\* C3: once the alarm has fired, no step of the job's setup, body or
\* evaluation is executed any more.
C3_TimeoutIsHard == (alarm = "fired" /\ stack # <<>>) => Top.pc \notin JobStepLabels

\* C4: if the job body raised on its own after the sandbox was set up (and no
\* timeout occurred), the summary on disk has the terminal state
\* TASK_EXECUTION_ERROR, score 0 and a recorded error-log path, and that log
\* file exists.
C4_BodyErrorRecorded ==
    (JobEnded /\ bodyExc /\ firedAt = "none") =>
        /\ summary.state = "TASK_EXECUTION_ERROR"
        /\ summary.score = 0
        /\ summary.error_log_path # "None"
        /\ "TASK_EXECUTION_ERROR" \in errlogs

\* C5: once the descriptor file was found missing, the worker does nothing but
\* record SETUP_ERROR with score 0 and return: nothing is constructed
\* (descriptor of the sandbox, manager, shell channel, executor, kernel) and
\* no create request is issued.
C5_MissingDescriptor ==
    (stack # <<>> /\ "fnf" \in Top.arg) =>
        /\ Top.pc \in {"worker.fnf", "worker.return"}
        /\ constructed = {}
        /\ ~createdSince /\ ~owned
        /\ Top.pc = "worker.return" => (tin.state = "SETUP_ERROR" /\ tin.score = 0)

C5_Witness == At("worker.return") /\ "fnf" \in Top.arg /\ tin.state = "SETUP_ERROR"

\* C6: when the worker has ended (returned, raised or timed out), no container
\* created or adopted for the job is left without VMManager.cleanup having
\* been invoked on it.
C6_CleanupBeforeWorkerEnds == WorkerEnded => ~owned

\* C7: the loop hands every job of the index to the runner exactly once and in
\* index order; no exception leaves the runner (the loop's frame is never
\* unwound), and the loop ends only after the last job.
C7_EveryJobOnceInOrder ==
    /\ stack # <<>>
    /\ stack[1].pc \in {"bench.loop", "bench.done"}
    /\ started = [i \in 1..cur |-> i]
    /\ At("bench.done") => cur = NumTasks

C7_Witness == At("bench.done") /\ 1 \in failed /\ Len(started) = NumTasks

\* C8: a manager whose constructor found a container under its name never
\* issues a create request, however often start() is called (as long as the
\* manager has not been told to clean the container up).
C8_NoCreateWhenFound == (foundAtInit /\ ~cleanedSince) => ~createdSince

C8_Witness ==
    /\ At("start.return") /\ foundAtInit /\ ~cleanedSince
    /\ cstatus = "exited" /\ docker = "running"

\* C9: when an exception has left connect_or_start, cleanup(delete_storage=True)
\* was invoked during that bring-up.
C9_BringUpFailureCleansUp == (bringUp = "failed") => cleanedTrue

\* C10: whenever VMManager.cleanup has ended, by return or by exception, the
\* shell session is closed.
C10_CleanupClosesSession == ~sshAtCleanupEnd

\* The executing frame belongs to VMManager.cleanup, past its first step.
InCleanup ==
    /\ stack # <<>>
    /\ Top.pc \in {"cleanup.remove", "cleanup.finally", "cleanup.rmtree", "cleanup.sshclose", "cleanup.return"}

\* C11: VMManager.cleanup treats "already gone" as success: once stop or remove
\* has answered NotFound the cleanup carries no exception; past its finally
\* clause the manager holds no container handle; and a cleanup that follows an
\* earlier cleanup (no container adopted or created in between) issues no stop
\* or remove request and carries no exception.
C11_AlreadyGoneIsSuccess ==
    InCleanup =>
        /\ lastCleanup.gone => Top.exc = "none"
        /\ Top.pc \in {"cleanup.rmtree", "cleanup.sshclose", "cleanup.return"} => ~container
        /\ lastCleanup.repeat => (~lastCleanup.req /\ Top.exc = "none")

C11_Witness ==
    /\ At("cleanup.return") /\ lastCleanup.gone /\ lastCleanup.req /\ ~container
    /\ cleanedSince /\ docker = "absent"

C11_WitnessRepeat == At("cleanup.return") /\ lastCleanup.repeat

\* C12: when the manager adopted a running container at construction and has
\* created none itself, the cleanup that SandboxVMManager.__exit__ calls is not
\* asked to delete the storage directory, so the existing directory stays.
C12_ExitKeepsAdoptedStorage ==
    (/\ Len(stack) >= 2
     /\ At("cleanup.rmtree")
     /\ stack[Len(stack) - 1].pc = "exit.entry"
     /\ adoptedRunning /\ ~createdSince /\ storage)
        => "delete" \notin Top.arg

\* C13: no exception leaves the attach step of the constructor: every step
\* taken from it stays in the constructor's frame and goes on to its end.
C13_AttachErrorNonFatal ==
    [][At("init.attach") =>
          /\ Len(stack') = Len(stack)
          /\ stack'[Len(stack')].pc = "init.return"]_vars

\* The ports of block i of the pool.
Block(i) == Range(pool[i])
BlockBase(i) == CHOOSE m \in Block(i) : \A x \in Block(i) : m <= x

\* C14: for distinct keys generate_port_pool returns max(1, max_conc) blocks;
\* the blocks are pairwise disjoint; each block maps every key, and maps
\* distinct keys to distinct ports; and a key sits at the same offset from the
\* block's base in every block.
C14_PortPoolBlocks ==
    (poolPc = "return" /\ Distinct(keys)) =>
        /\ Len(pool) = Max(1, max_conc)
        /\ \A i, j \in DOMAIN pool : i # j => Block(i) \cap Block(j) = {}
        /\ \A i \in DOMAIN pool :
              /\ DOMAIN pool[i] = Range(keys)
              /\ \A k, l \in Range(keys) : k # l => pool[i][k] # pool[i][l]
        /\ \A i, j \in DOMAIN pool : \A k \in Range(keys) :
              pool[i][k] - BlockBase(i) = pool[j][k] - BlockBase(j)

C14_Witness ==
    /\ poolPc = "return" /\ Distinct(keys) /\ Len(keys) = MaxKeys
    /\ Len(pool) = MaxConc /\ start = 60000

\* C16: no lifecycle operation writes to, binds or deletes the shared base
\* image: the manager only ever reads it, and the only files it binds into a
\* container are the instance's private copy and the shared directory.
C16_BaseImageUntouched ==
    \A f \in fsops :
        /\ f.path = "base_data" => f.op = "read"
        /\ f.op = "bind" => f.path \in {"host_container_data", "host_container_shared_dir"}

C16_Witness ==
    /\ At("cleanup.return")
    /\ {FsOp("read", "base_data"), FsOp("bind", "host_container_data"),
         FsOp("delete", "host_container_dir")} \subseteq fsops

\* C15: a descriptor that has passed _validate_config has every host port of
\* its port map (shell, display, service ports) within 1..65535, and no two
\* entries of the map share a host port; a descriptor that is not so is turned
\* down with a creation error and nothing else.
C15_ValidatedPortsSound ==
    validation \in {"ok", "AttributeError"} =>
        /\ \A e \in cfg.ports : e[2] \in 1..65535
        /\ \A e, f \in cfg.ports : e[1] # f[1] => e[2] # f[2]

\* C17: while the next message to be read has a parent id other than the id of
\* the request just sent, no step adds to the kept output, sets the result,
\* raises, or ends the read loop.
C17_ForeignMessageDiscarded ==
    [][(rpc = "recv" /\ inbox # <<>> /\ Head(inbox).parent # msg_id) =>
          /\ outputs' = outputs /\ result' = result
          /\ waiting_for_idle' = waiting_for_idle
          /\ rpc' = "recv" /\ outcome' = outcome]_vars

C17_Witness ==
    /\ rpc = "idle" /\ seen.dropped /\ outcome.kind = "pair" /\ msg_id = MaxRuns

\* C18: a call with return_final_answer=True on a fragment that has a
\* final-answer expression and does not raise in the kernel never raises, and
\* once the idle status of its request has been read it has returned the value
\* of the expression with an output free of sentinel text, however the kernel
\* cut the printed output into stream messages.
C18_FinalAnswerReturned ==
    (return_final_answer /\ fragment.final /\ ~fragment.fails) =>
        /\ outcome.kind # "raise"
        /\ seen.idle =>
              /\ outcome.kind = "pair"
              /\ outcome.result = "value"
              /\ "S" \notin Range(outcome.text)

\* C19: once the idle status of its request has been read, with no error
\* message before it, the call has returned a (result, output) pair.
C19_ReturnsAtIdle == (seen.idle /\ ~seen.error) => outcome.kind = "pair"

\* C20: once an error message of the current request has been read the call
\* has raised an error carrying the remote traceback, and has returned no pair,
\* whatever output or result it had captured.
C20_ErrorMessageRaises ==
    seen.error => (outcome.kind = "raise" /\ outcome.text = <<"traceback">>)

C20_Witness ==
    /\ seen.error /\ outcome.kind = "raise" /\ outputs # <<>> /\ rpc = "idle"

\* C21: _initialize_kernel_connection creates an execution context only when
\* none exists on the gateway: a create request that adds a context is made
\* with no context alive.
C21_CreateOnlyWhenNone ==
    [][(At("kernel.post") /\ kernels' > kernels) => kernels = 0]_vars

\* A teardown step of SandboxExecutor.cleanup is running, or the sandbox
\* teardown it called.
InExecTeardown ==
    \E i \in DOMAIN stack : stack[i].pc \in {"xcleanup.delete", "xcleanup.wsclose", "xcleanup.vmexit"}

\* C22: a cleanup of the executor that completes leaves the exited flag set,
\* whether or not its teardown steps succeeded; the flag stays set for the
\* executor's life; and while it is set no call runs a teardown step: no
\* delete request, no close of the streaming connection, no sandbox teardown.
C22_CleanupIdempotent ==
    [][/\ (At("xcleanup.exited") /\ stack' # stack) => exited'
       /\ (exited /\ ~At("xinit.entry")) => (exited' /\ ~InExecTeardown')]_vars

\* A further call on an executor whose cleanup has completed, with the context
\* it used still alive because the delete request had failed.
C22_Witness ==
    /\ At("xcleanup.entry") /\ exited /\ agent
    /\ stack[1].pc = "user.xcleanup" /\ cleanedSince /\ kernelId /\ ws

\* The prompt check of exec_command acts on a prompt it has read.
PromptStep ==
    /\ sshPc = "prompt" /\ sshPc' # "prompt"
    /\ loc.needs_pty /\ ~loc.password_sent /\ PromptDetected(loc.read_buffer)

RaisedNoPassword ==
    /\ sshPc = "done" /\ channel.closed
    /\ ret = RemoteCommandError(call.cmd, -1, <<>>, <<"no password provided">>)

\* C23, as stated: when the prompt marker is read from an elevated command and
\* neither the sudo_password argument nor the session carries a password, the
\* call closes the channel and raises RemoteCommandError in that very step;
\* when one of the two carries a password, the call writes it to the channel
\* and goes on reading.
C23_AsStated ==
    [][PromptStep =>
         IF call.sudo_password \in {"None", ""} /\ call.password = ""
         THEN RaisedNoPassword'
         ELSE /\ sshPc' = "poll" /\ loc'.password_sent
              /\ Len(channel'.stdin) = Len(channel.stdin) + 1]_vars

\* C23: when the prompt marker is read from an elevated command and the
\* password in force for the call (the sudo_password argument when one is
\* given, even an empty one, else the session password) is empty, the call
\* closes the channel and raises RemoteCommandError in that very step, before
\* the timeout; otherwise it goes on reading, having written that password to
\* the channel once or, when the write itself failed, having changed nothing.
C23_NoPasswordRaises ==
    [][PromptStep =>
         IF \/ call.sudo_password = ""
            \/ call.sudo_password = "None" /\ call.password = ""
         THEN RaisedNoPassword'
         ELSE /\ sshPc' = "poll"
              /\ \/ /\ loc'.password_sent
                    /\ channel'.stdin = Append(channel.stdin,
                          IF call.sudo_password = "None" THEN call.password
                          ELSE call.sudo_password)
                 \/ UNCHANGED <<channel, loc>>]_vars

\* An elevated call without any password has read sudo's prompt and raised
\* before the timeout.
C23_Witness ==
    /\ RaisedNoPassword /\ ~elapsed /\ call.as_root
    /\ call.sudo_password = "None" /\ call.password = ""
    /\ remote.phase = "asking"

PromptTokens == {"[sudo] ", "password for", "user:", "[SUDO] ", "PASSWORD FOR", "USER:",
                 "Password for"}

\* C24: a call with as_root=True and a password, answered with sudo's prompt,
\* that returns normally returns as stdout what the command wrote: no token of
\* the prompt and no password is part of it.
C24_StdoutIsCommandOutput ==
    (/\ sshPc = "done" /\ ret.kind = "dict" /\ call.as_root
     /\ PasswordToSend(call) # "" /\ call.prompt # <<>> /\ loc.password_sent)
    => \A i \in DOMAIN ret.stdout : ret.stdout[i] \notin PromptTokens \cup {"pw"}

\* C25: whenever the text read from an elevated command contains
\* "password for" in any letter case and no password was sent yet, the prompt
\* check handles it: it sends the password or raises for want of one.
C25_AnyPasswordForPrompt ==
    [][(/\ sshPc = "prompt" /\ sshPc' # "prompt"
        /\ loc.needs_pty /\ ~loc.password_sent
        /\ \E i \in DOMAIN loc.read_buffer : LowerTok(loc.read_buffer[i]) = "password for")
       => (loc'.password_sent \/ RaisedNoPassword')]_vars

\* the part of a text behind the first occurrence of a token
RECURSIVE Behind(_, _)
Behind(text, tok) ==
    IF text = <<>> THEN <<>>
    ELSE IF Head(text) = tok THEN Tail(text) ELSE Behind(Tail(text), tok)

TimedOut == sshPc = "done" /\ ret.kind = "RemoteCommandError" /\ ret.stderr # <<>>
            /\ Head(ret.stderr) = "Command timed out"

\* C26: a call that ends with the timeout error has closed the channel, and the
\* error carries all the stdout and all the stderr read until then.
C26_TimeoutCarriesOutput ==
    TimedOut =>
        /\ channel.closed /\ ret.status = -1
        /\ ret.stdout = Join(loc.stdout_data_parts)
        /\ Behind(ret.stderr, "Partial stderr:") = Join(loc.stderr_data_parts)

\* C27: a call whose command ended with a non-zero exit status, seen by the
\* read loop, ends with a RemoteCommandError that carries the command, the
\* status and both streams, whatever env, as_root and block.
C27_NonZeroExitRaises ==
    (sshPc = "done" /\ loc.exit_status_ready /\ channel.exit # 0)
    => /\ ret.kind = "RemoteCommandError" /\ ret.command = call.cmd
       /\ ret.status = channel.exit
       /\ Len(ret.stdout) >= Len(Join(loc.stdout_data_parts))
       /\ Len(ret.stderr) >= Len(Join(loc.stderr_data_parts))

\* C28: a put_file or download_file call made without an overwrite argument
\* onto a destination that exists ends with VMOperationError and leaves the
\* destination's file system as it was.
C28_OverwriteProtected ==
    [][Len(xcalls') = Len(xcalls) + 1 =>
         LET c == xcalls'[Len(xcalls')]
         IN  /\ (c.op = "put_file" /\ c.overwrite = "default" /\ Exists(rfs, c.to))
                    => (c.result = "VMOperationError" /\ rfs' = rfs)
             /\ (c.op = "download_file" /\ c.overwrite = "default" /\ Exists(lfs, c.to))
                    => (c.result = "VMOperationError" /\ lfs' = lfs)]_vars

\* the tree below a root, with paths relative to the root
Below(fs, root) ==
    {Node(SubSeq(n.path, 2, Len(n.path)), n.kind, n.data) :
        n \in {m \in fs : Len(m.path) > 1 /\ m.path[1] = root[1]}}

\* the entries none of whose path components is an excluded name
Kept(tree, exclude) == {n \in tree : \A i \in DOMAIN n.path : n.path[i] \notin exclude}

RoundTrip ==
    /\ xferPc = "end" /\ scene = [remote |-> "empty", dst |-> "fresh"]
    /\ xcalls[1].op = "put_directory" /\ xcalls[2].op = "download_directory"

\* C29: put_directory of a local tree to an empty remote location followed by
\* download_directory to a fresh local location both succeed, and the
\* downloaded tree has exactly the relative paths of the original tree that
\* have no excluded name on them, each of the same kind and with the same
\* content, for every exclusion list given to the calls.
C29_RoundTrip ==
    RoundTrip =>
        /\ xcalls[1].result = "ok" /\ xcalls[2].result = "ok"
        /\ Below(lfs, Dst) = Kept(Below(lfs, Src), xcalls[1].exclude \cup xcalls[2].exclude)

\* A round trip of a tree with a file in a directory and a file beside it, of
\* different content, where the upload excludes only the name of the second.
C29_Witness ==
    /\ RoundTrip
    /\ xcalls[1].exclude = {"b"} /\ xcalls[2].exclude = {}
    /\ Below(lfs, Src) = {Node(<<"a">>, "dir", ""), Node(<<"a", "a">>, "file", "x"),
                          Node(<<"b">>, "file", "y")}
    /\ Below(lfs, Dst) = {Node(<<"a">>, "dir", ""), Node(<<"a", "a">>, "file", "x")}

\* C30: when the runner returns to the loop, the job's output has been saved by
\* exactly one save_result_summary call, and the summary on disk equals the
\* job's output in memory (state, score, error-log path) as it stands then.
C30_SavedOnceWithFinalOutput == JobEnded => (saves = 1 /\ summary = tin)

\* C31: _wait_for_ssh_ready has returned, and start(wait_for_ssh=True) has
\* returned, only when the last probe completed with a zero exit status and its
\* stdout is the token "ready" with nothing but whitespace around it.
C31_ReadyOnlyOnReadyProbe ==
    (wout.wait = "returned" \/ (wait_for_ssh /\ wout.start = "returned"))
    => /\ probe.kind = "dict"
       /\ \E i \in DOMAIN probe.stdout :
             /\ probe.stdout[i] = "ready"
             /\ \A j \in DOMAIN probe.stdout : j # i => probe.stdout[j] = "n"

\* start(wait_for_ssh=True) has returned after two probes that did not count
\* (an error, then other output) and one that printed "ready" and a newline.
C31_Witness ==
    /\ wpc = "done" /\ wait_for_ssh /\ wout = [wait |-> "returned", start |-> "returned"]
    /\ waited.probes = 3 /\ probe = [kind |-> "dict", stdout |-> <<"ready", "n">>]

\* C33: _wait_for_ssh_ready ends in every run, by returning or by raising
\* TimeoutError; it is entered at most once per start call, makes at most one
\* probe per sleep interval of the window, and after the TimeoutError start
\* has ended too.
C33_WaitTerminates ==
    /\ <>(wpc = "done")
    /\ [](waited.entries <= 1 /\ waited.probes <= Window)
    /\ [](wout.wait = "TimeoutError" => (wpc = "done" /\ wout.start = "TimeoutError"))

\* The window has elapsed after as many failed probes as it has intervals, and
\* the wait has raised.
C33_Witness ==
    /\ wpc = "done" /\ wout.wait = "TimeoutError" /\ waited.probes = Window
    /\ waited.entries = 1 /\ now = Window
\* C32: start() sends at most one create, start or restart request, and once it
\* has passed on to the wait the request is the one its observation calls for:
\* create when no container is known, restart for a running or paused container
\* only with restart_if_running, nothing for it otherwise, start for any other.
C32_OneRequestForObservedState ==
    /\ Len(requests.sent) <= 1
    /\ At("start.wait") =>
          requests.sent = (IF requests.seen = "none" THEN <<"create">>
                           ELSE IF requests.seen \in {"running", "paused"}
                                THEN IF requests.restart THEN <<"restart">> ELSE <<>>
                                ELSE <<"start">>)

C32_Witness ==
    /\ At("start.wait")
    /\ requests.seen = "running" /\ requests.restart
    /\ requests.sent = <<"restart">>

\* C34: within one exec_command call the password is written only in a step
\* that has the prompt marker in the text read so far on a channel with a
\* pseudo-terminal and has not written it before; that step sets the sent flag
\* and empties the scan buffer, and the flag is never taken back, so the
\* password is written at most once however the prompt is repeated.
C34_PasswordWrittenOnce ==
    /\ [][Len(channel'.stdin) > Len(channel.stdin) =>
            /\ loc.needs_pty /\ ~loc.password_sent /\ PromptDetected(loc.read_buffer)
            /\ loc'.password_sent /\ loc'.read_buffer = <<>>]_vars
    /\ [][loc.password_sent => loc'.password_sent]_vars

C34_Witness ==
    /\ sshPc = "poll" /\ loc.password_sent /\ channel.stdin = <<>>
    /\ PromptDetected(loc.read_buffer)

\* C35: every exec_command call that has dispatched a command asking for
\* elevation (as_root set, or the command to execute invokes sudo, behind inline
\* environment assignments or not) has allocated a pseudo-terminal on the channel.
C35_ElevationGetsPty ==
    (remote.phase # "none" /\ (call.as_root \/ Elevated(loc.cmd_to_execute)))
    => loc.needs_pty

\* C36: when SandboxExecutor.cleanup of an executor that holds a sandbox reaches
\* the statement behind its three teardown steps, the sandbox teardown has been
\* attempted, whether the delete request or the connection close raised or not.
C36_SandboxTeardownAttempted ==
    (At("xcleanup.exited") /\ hasVm) => cleanedSince

\* C37: _initialize_kernel_connection makes at most Retries create requests and
\* at most Retries connection attempts, sleeps between a failed attempt and the
\* one that follows it, and returns only with a kernel id and an open connection.
C37_BoundedRetriesWithDelay ==
    /\ [](attempt <= Retries)
    /\ [](At("kernel.return") => (kernelId /\ ws))
    /\ [][(At("kernel.post") /\ attempt < Retries) => ~(At("kernel.create"))']_vars
    /\ [][(At("kernel.connect") /\ attempt < Retries) => ~(At("kernel.ws"))']_vars

\* The remote path put_directory gives to local path l, and whether a path below
\* the base has a name of the exclusion list in it.
RemoteOf(l) == Rem \o SubSeq(l, Len(Src) + 1, Len(l))
Skipped(p, base, exclude) == \E i \in (Len(base) + 1)..Len(p) : p[i] \in exclude

\* C38: a put_directory call writes a remote file only into a directory that
\* exists on the remote side by then, creates or writes nothing at or below an
\* excluded name, uploads no file twice, and once it has ended without error
\* the files it uploaded are exactly the regular files of the local tree that
\* have no excluded name on their path.
C38_EachFileOnceBelowItsDirectory ==
    /\ [][xferPc = "putdir" =>
            \A n \in rfs' \ rfs :
                /\ ~Skipped(n.path, Rem, xcalls[Len(xcalls)].exclude)
                /\ n.kind = "file" => IsDir(rfs, Parent(n.path))]_vars
    /\ [](\A i \in DOMAIN xcalls :
            LET c == xcalls[i]
            IN  c.op = "put_directory" =>
                  /\ c.puts.again = {}
                  /\ \A r \in c.puts.once : ~Skipped(r, Rem, c.exclude)
                  /\ c.result = "ok" =>
                        c.puts.once = {RemoteOf(n.path) :
                                         n \in {m \in lfs : /\ m.kind = "file"
                                                             /\ Len(m.path) > Len(Src)
                                                             /\ SubSeq(m.path, 1, Len(Src)) = Src
                                                             /\ ~Skipped(m.path, Src, c.exclude)}})

C38_Witness ==
    /\ xcalls # <<>>
    /\ LET c == xcalls[Len(xcalls)]
       IN  /\ c.op = "put_directory" /\ c.result = "ok" /\ c.exclude = {"b"}
           /\ Rem \o <<"a", "a">> \in c.puts.once
           /\ Exists(lfs, Src \o <<"b">>)

\* C39: the sub-channel a _get_sftp call returns was opened on the session the
\* client holds when the call returns.
C39_SftpOnCurrentSession ==
    handed.op = "_get_sftp" => handed.sftp = handed.client

\* C40: when run_benchmark goes on to the next job, the container the job before
\* it created is gone from the host, so the next job's container, which is given
\* the same host ports, never meets a live one of the job before.
C40_SandboxGoneBeforeNextJob ==
    [][(cur' = cur + 1 /\ createdSince) => docker = "absent"]_vars

====
